---- MODULE Spec2Model ----
(***************************************************************************)
(* Model of the RAG pipeline of binnes/a2a (src/RAG):                     *)
(*   services/document_processor.py  DocumentProcessor                    *)
(*   services/watsonx_client.py      WatsonxClient (tenacity retries)     *)
(*   services/milvus_client.py       MilvusClient                         *)
(*   mcp_server/rag_tools.py         RAGTools                             *)
(* Every handler is one atomic action.  The outcomes of the external      *)
(* services (file system, embedding provider, LLM, Milvus backend) are    *)
(* inputs of the action, drawn from small sets.  The calls a handler      *)
(* makes to those services are recorded, in order, in last.log.           *)
(***************************************************************************)
EXTENDS Integers, Sequences, FiniteSets, TLC

VARIABLES
    fs,          \* the file system: file name -> state of that file
    collection,  \* MilvusClient.collection: "None" or "Collection"
    backend,     \* the Milvus collection behind the handle
    now,         \* int(datetime.now().timestamp())
    wx,          \* WatsonxClient: _embeddings and _llm present or None, and the
                 \* length of the vectors the embedding model behind it returns
    last,        \* observation of the most recent call (op, input, outcome, log)
    prev,        \* the document processor's run before the last one
    processor,   \* the DocumentProcessor: not built, or its chunk settings
    tasks,       \* the concurrent activities, in order of creation: the coroutines
                 \* handed to asyncio.gather, or the runs of the data loader
    rag_tools    \* the MCP server's global rag_tools: "None" or "RAGTools"

vars == <<fs, collection, backend, now, wx, last, prev, processor, tasks, rag_tools>>

(***************************************************************************)
(* Bounds of the model.                                                    *)
(***************************************************************************)
MaxChunks == 2     \* chunks the splitter yields for one file
MaxDots == 1       \* redundant "./" segments in front of a path argument
MaxFailures == 10  \* consecutive failures of an external provider
MaxRecords == 2    \* records held by the collection
MaxTime == 1       \* seconds the wall clock advances
MaxTopK == 1       \* largest top_k a caller passes

\* Settings.rag_chunk_size and Settings.rag_chunk_overlap, in words
rag_chunk_size == 80
rag_chunk_overlap == 10

\* DocumentProcessor.__init__: a word is taken to be five characters
chars_per_word == 5

\* no DocumentProcessor has been constructed
NoProcessor == [built |-> FALSE]

\* DocumentProcessor.__init__: the sizes in words become sizes in characters
\* and RecursiveCharacterTextSplitter is constructed with them; the only
\* check on the way is the splitter's own, which rejects an overlap larger
\* than the chunk size
document_processor_init(settings) ==
    LET chunk_size_chars == settings.rag_chunk_size * chars_per_word
        chunk_overlap_chars == settings.rag_chunk_overlap * chars_per_word
    IN  IF chunk_overlap_chars > chunk_size_chars
        THEN [ok |-> FALSE, err |-> "ValueError", processor |-> NoProcessor]
        ELSE [ok |-> TRUE, err |-> "none",
              processor |-> [built |-> TRUE,
                             chunk_overlap |-> settings.rag_chunk_overlap,
                             chunk_overlap_chars |-> chunk_overlap_chars,
                             chunk_size |-> settings.rag_chunk_size,
                             chunk_size_chars |-> chunk_size_chars]]

\* RAGTools.__init__: DocumentProcessor(settings) with the default settings
DefaultProcessor ==
    document_processor_init([rag_chunk_size |-> rag_chunk_size,
                             rag_chunk_overlap |-> rag_chunk_overlap]).processor

(***************************************************************************)
(* Sequence helpers.                                                       *)
(***************************************************************************)
RECURSIVE Flatten(_)
Flatten(ss) == IF ss = <<>> THEN <<>> ELSE Head(ss) \o Flatten(Tail(ss))

Range(s) == {s[i] : i \in DOMAIN s}

\* [x[field] for x in rows]
Column(rows, field) == [i \in 1..Len(rows) |-> rows[i][field]]

Perms(S) == {s \in [1..Cardinality(S) -> S] : Range(s) = S}

\* a logged call to an external service and whether it returned normally
Ev(c, k) == [call |-> c, ok |-> k]

\* how many times the call `c` occurs in a log
Calls(log, c) == Cardinality({i \in DOMAIN log : log[i].call = c})

NoLast == [op |-> "none", ok |-> TRUE, err |-> "none", log |-> <<>>]

(***************************************************************************)
(* Paths and the file system.                                              *)
(* A path argument is [dots, dir, stem, ext]: `dots` leading "./"          *)
(* segments, an optional sub-directory, and the file name stem + ext.      *)
(* pathlib drops "." segments, so str(Path(p)) has dots = 0.               *)
(***************************************************************************)
FileNames ==
    { [dir |-> "", stem |-> "a", ext |-> ".txt"],
      [dir |-> "sub", stem |-> "b", ext |-> ".PDF"],
      [dir |-> "", stem |-> "e", ext |-> ".xyz"] }

PathArgs ==
    { [dots |-> k, dir |-> n.dir, stem |-> n.stem, ext |-> n.ext] :
        k \in 0..MaxDots, n \in FileNames }

\* Path(file_path): the normalised path object
Path(file_path) == [file_path EXCEPT !.dots = 0]

\* the file-system entry a path denotes
NameOf(path) == [dir |-> path.dir, stem |-> path.stem, ext |-> path.ext]

\* str.lower() on the suffixes of the model
lower(s) ==
    CASE s = ".PDF" -> ".pdf"
      [] s = ".TXT" -> ".txt"
      [] OTHER -> s

\* a file's state: absent, or present with unreadable content ("corrupt"),
\* or present with content that the splitter cuts into `n` chunks
FileStates == {[kind |-> "absent", n |-> 0], [kind |-> "corrupt", n |-> 0]}
                \cup {[kind |-> "ok", n |-> k] : k \in 0..MaxChunks}

exists(path) == fs[NameOf(path)].kind # "absent"

\* _extract_pdf / _extract_docx / _extract_text: the text of the file, or
\* the parser's / decoder's exception
extract(path) ==
    IF fs[NameOf(path)].kind = "corrupt"
    THEN [ok |-> FALSE, err |-> "ExtractionError", text |-> [doc |-> NameOf(path), n |-> 0]]
    ELSE [ok |-> TRUE, err |-> "none", text |-> [doc |-> NameOf(path), n |-> fs[NameOf(path)].n]]

\* _clean_text: normalisation keeps the document and its pieces
clean_text(text) == text

\* _chunk_text: RecursiveCharacterTextSplitter.split_text, the ordered pieces
chunk_text(text) == [i \in 1..text.n |-> [doc |-> text.doc, part |-> i - 1]]

\* _generate_chunk_id: sha256(f"{file_path}:{chunk_index}").hexdigest()[:32];
\* the digest is taken to be collision-free on the strings of the model, so
\* it is represented by the string it hashes
generate_chunk_id(file_path, chunk_index) == [hash |-> <<file_path, chunk_index>>]

\* the enumerate() loop of process_file
doc_chunks_from1(file_path, path, chunks) ==
    [i \in 1..Len(chunks) |->
        [id |-> generate_chunk_id(file_path, i), text |-> chunks[i],
         source |-> path, chunk_index |-> i, total_chunks |-> Len(chunks)]]

doc_chunks(file_path, path, chunks) ==
    [i \in 1..Len(chunks) |->
        [id |-> generate_chunk_id(file_path, i - 1), text |-> chunks[i],
         source |-> path, chunk_index |-> i - 1, total_chunks |-> Len(chunks)]]

SupportedSuffixes == {".pdf", ".docx", ".txt", ".md"}

\* DocumentProcessor.process_file
process_file_suffix_first(file_path) ==
    LET path == Path(file_path) IN
    IF lower(path.ext) \notin SupportedSuffixes
    THEN [ok |-> FALSE, err |-> "ValueError", chunks |-> <<>>, log |-> <<>>]
    ELSE IF ~exists(path)
    THEN [ok |-> FALSE, err |-> "FileNotFoundError", chunks |-> <<>>, log |-> <<>>]
    ELSE LET x == extract(path) IN
         IF ~x.ok THEN [ok |-> FALSE, err |-> x.err, chunks |-> <<>>,
                        log |-> <<Ev("extract", FALSE)>>]
         ELSE [ok |-> TRUE, err |-> "none",
               chunks |-> doc_chunks(file_path, path, chunk_text(clean_text(x.text))),
               log |-> <<Ev("extract", TRUE), Ev("split_text", TRUE)>>]

process_file(file_path) ==
    LET path == Path(file_path) IN
    IF ~exists(path)
    THEN [ok |-> FALSE, err |-> "FileNotFoundError", chunks |-> <<>>, log |-> <<>>]
    ELSE IF lower(path.ext) \notin SupportedSuffixes
    THEN [ok |-> FALSE, err |-> "ValueError", chunks |-> <<>>, log |-> <<>>]
    ELSE LET x == extract(path) IN
         IF ~x.ok THEN [ok |-> FALSE, err |-> x.err, chunks |-> <<>>,
                        log |-> <<Ev("extract", FALSE)>>]
         ELSE [ok |-> TRUE, err |-> "none",
               chunks |-> doc_chunks(file_path, path, chunk_text(clean_text(x.text))),
               log |-> <<Ev("extract", TRUE), Ev("split_text", TRUE)>>]

\* the directories a caller names: the root (exists) and one that does not
DirArgs == {"root", "nodir"}

\* path.rglob("*") / path.glob("*") filtered by suffix: the files found
\* under the directory, as normalised paths
files_found(recursive) ==
    { [dots |-> 0, dir |-> n.dir, stem |-> n.stem, ext |-> n.ext] :
        n \in { m \in FileNames : /\ fs[m].kind # "absent"
                                  /\ lower(m.ext) \in SupportedSuffixes
                                  /\ (recursive \/ m.dir = "") } }

\* DocumentProcessor.process_directory, `files` being the listing in the
\* order the file system yields it
process_directory(directory_path, files) ==
    IF directory_path # "root"
    THEN [ok |-> FALSE, err |-> "ValueError", chunks |-> <<>>, log |-> <<>>]
    ELSE [ok |-> TRUE, err |-> "none",
          chunks |-> Flatten([i \in 1..Len(files) |->
                        LET r == process_file(files[i]) IN
                        IF r.ok THEN r.chunks ELSE <<>>]),
          log |-> Flatten([i \in 1..Len(files) |-> process_file(files[i]).log])]

(***************************************************************************)
(* Specification of the document processor alone.                          *)
(***************************************************************************)
\* the file systems of the model; a file with an unsupported suffix is never
\* read, so its content is left empty
FsStates ==
    { f \in [FileNames -> FileStates] :
        \A n \in FileNames :
            lower(n.ext) \notin SupportedSuffixes =>
                f[n] \in {[kind |-> "absent", n |-> 0], [kind |-> "ok", n |-> 0]} }

NoBackend == [exists |-> FALSE, dim |-> 0, metric |-> "none", indexed |-> FALSE,
              loaded |-> FALSE, records |-> <<>>]

\* Settings.embedding_dimension
embedding_dimension == 768

\* WatsonxClient._initialize_client returned: both model handles are set
\* and the embedding model is the one the settings' dimension belongs to
WxReady == [embeddings |-> TRUE, llm |-> TRUE, dim |-> embedding_dimension]

InitProc ==
    /\ fs \in FsStates
    /\ collection = "None"
    /\ backend = NoBackend
    /\ now = 0
    /\ wx = WxReady
    /\ last = NoLast
    /\ prev = NoLast
    /\ processor = DefaultProcessor
    /\ tasks = <<>>
    /\ rag_tools = "RAGTools"

ProcessFile ==
    \E file_path \in PathArgs :
        \E r \in {process_file(file_path)} :
        /\ last' = [op |-> "process_file", file_path |-> file_path,
                    ok |-> r.ok, err |-> r.err, chunks |-> r.chunks, log |-> r.log]
        /\ prev' = last
        /\ UNCHANGED <<rag_tools, processor, tasks, fs, collection, backend, now, wx>>

ProcessDirectory ==
    \E directory_path \in DirArgs, recursive \in BOOLEAN :
      \E files \in Perms(files_found(recursive)) :
        \E r \in {process_directory(directory_path, files)} :
        /\ last' = [op |-> "process_directory", directory_path |-> directory_path,
                    files |-> files,
                    ok |-> r.ok, err |-> r.err, chunks |-> r.chunks, log |-> r.log]
        /\ prev' = last
        /\ UNCHANGED <<rag_tools, processor, tasks, fs, collection, backend, now, wx>>

NextProc == ProcessFile \/ ProcessDirectory

SpecProc == InitProc /\ [][NextProc]_vars

(***************************************************************************)
(* The document processor at the level of characters.  A text is a         *)
(* sequence of characters; "CR", "LF" and "TAB" stand for the control      *)
(* characters.  _clean_text and RecursiveCharacterTextSplitter.split_text  *)
(* are computed step by step as the code and the library compute them.     *)
(***************************************************************************)
MaxLen == 6          \* characters in the text of a file
MaxChunkWords == 1   \* largest rag_chunk_size a processor is built with
MaxOverlapWords == 2 \* largest rag_chunk_overlap a processor is built with

\* the characters a file of the model contains
Chars == {"a", " ", "CR", "#", "."}

\* \s and \w of the re module
Whitespace == {" ", "CR", "LF", "TAB"}
WordChars == {"a"}

\* the punctuation the second substitution of _clean_text keeps
Punctuation == {".", ",", "!", "?", ";", ":", "(", ")", "-", "\"", "'"}

RECURSIVE lstrip(_)
lstrip(t) == IF t # <<>> /\ Head(t) \in Whitespace THEN lstrip(Tail(t)) ELSE t

RECURSIVE rstrip(_)
rstrip(t) ==
    IF t # <<>> /\ t[Len(t)] \in Whitespace THEN rstrip(SubSeq(t, 1, Len(t) - 1)) ELSE t

\* str.strip()
strip(t) == rstrip(lstrip(t))

\* re.sub(r"\s+", " ", text): every run of whitespace becomes one space
RECURSIVE collapse_whitespace(_)
collapse_whitespace(t) ==
    IF t = <<>> THEN <<>>
    ELSE IF Head(t) \in Whitespace
         THEN <<" ">> \o collapse_whitespace(lstrip(t))
         ELSE <<Head(t)>> \o collapse_whitespace(Tail(t))

\* re.sub(r"[^\w\s.,!?;:()\-\"']", "", text): the other characters are deleted
remove_special(t) ==
    SelectSeq(t, LAMBDA c : c \in WordChars \cup Whitespace \cup Punctuation)

\* text.replace("\r\n", "\n").replace("\r", "\n")
RECURSIVE replace_crlf(_)
replace_crlf(t) ==
    IF t = <<>> THEN <<>>
    ELSE IF Len(t) >= 2 /\ t[1] = "CR" /\ t[2] = "LF"
         THEN <<"LF">> \o replace_crlf(Tail(Tail(t)))
         ELSE <<Head(t)>> \o replace_crlf(Tail(t))

normalize_line_breaks(t) ==
    LET u == replace_crlf(t) IN [i \in 1..Len(u) |-> IF u[i] = "CR" THEN "LF" ELSE u[i]]

\* DocumentProcessor._clean_text: the four steps in the order of the code
_clean_text(text) ==
    strip(normalize_line_breaks(remove_special(collapse_whitespace(text))))

\* separators=["\n\n", "\n", ". ", " ", ""]
separators == << <<"LF", "LF">>, <<"LF">>, <<".", " ">>, <<" ">>, <<>> >>

StartsWith(t, sep) == Len(t) >= Len(sep) /\ SubSeq(t, 1, Len(sep)) = sep

\* re.search(re.escape(sep), text)
Contains(t, sep) ==
    \E i \in 1..(Len(t) - Len(sep) + 1) : SubSeq(t, i, i + Len(sep) - 1) = sep

\* _split_text_with_regex(text, separator, keep_separator=True): the text is
\* cut in front of every occurrence of the separator, the separator stays
\* at the head of the piece that follows it, and empty pieces are dropped;
\* `cur` is the piece being read
RECURSIVE split_keep_separator(_, _, _)
split_keep_separator(t, sep, cur) ==
    IF t = <<>> THEN (IF cur = <<>> THEN <<>> ELSE <<cur>>)
    ELSE IF StartsWith(t, sep)
         THEN (IF cur = <<>> THEN <<>> ELSE <<cur>>)
                \o split_keep_separator(SubSeq(t, Len(sep) + 1, Len(t)), sep, sep)
         ELSE split_keep_separator(Tail(t), sep, Append(cur, Head(t)))

\* with the empty separator the pieces are the characters: list(text)
_split_text_with_regex(t, sep) ==
    IF sep = <<>> THEN [i \in 1..Len(t) |-> <<t[i]>>]
    ELSE split_keep_separator(t, sep, <<>>)

\* the length of the pieces of current_doc
RECURSIVE TotalLen(_)
TotalLen(pieces) == IF pieces = <<>> THEN 0 ELSE Len(Head(pieces)) + TotalLen(Tail(pieces))

\* _join_docs(current_doc, ""): the pieces joined and stripped; an empty
\* result (None) adds no document
_join_docs(current_doc) ==
    LET text == strip(Flatten(current_doc)) IN IF text = <<>> THEN <<>> ELSE <<text>>

\* the while loop of _merge_splits: pieces leave the front of current_doc
\* until what is kept is within the overlap and the next piece fits
RECURSIVE pop_front(_, _, _)
pop_front(current_doc, len, P) ==
    IF \/ TotalLen(current_doc) > P.chunk_overlap_chars
       \/ (TotalLen(current_doc) + len > P.chunk_size_chars /\ TotalLen(current_doc) > 0)
    THEN pop_front(Tail(current_doc), len, P)
    ELSE current_doc

\* the for loop of _merge_splits, at the piece Head(splits)
RECURSIVE merge_from_at_size(_, _, _)
merge_from_at_size(splits, current_doc, P) ==
    IF splits = <<>> THEN _join_docs(current_doc)
    ELSE LET d == Head(splits) IN
         IF TotalLen(current_doc) + Len(d) >= P.chunk_size_chars /\ current_doc # <<>>
         THEN _join_docs(current_doc)
                \o merge_from_at_size(Tail(splits),
                        Append(pop_front(current_doc, Len(d), P), d), P)
         ELSE merge_from_at_size(Tail(splits), Append(current_doc, d), P)

RECURSIVE merge_from(_, _, _)
merge_from(splits, current_doc, P) ==
    IF splits = <<>> THEN _join_docs(current_doc)
    ELSE LET d == Head(splits) IN
         IF TotalLen(current_doc) + Len(d) > P.chunk_size_chars /\ current_doc # <<>>
         THEN _join_docs(current_doc)
                \o merge_from(Tail(splits), Append(pop_front(current_doc, Len(d), P), d), P)
         ELSE merge_from(Tail(splits), Append(current_doc, d), P)

\* TextSplitter._merge_splits(splits, ""): pieces are packed into documents
\* of at most chunk_size characters
_merge_splits(splits, P) == merge_from(splits, <<>>, P)

\* the separator _split_text works with: the first one that occurs in the
\* text, the empty one if none does
RECURSIVE FirstSeparator(_, _, _)
FirstSeparator(t, seps, i) ==
    IF i > Len(seps) THEN Len(seps)
    ELSE IF seps[i] = <<>> \/ Contains(t, seps[i]) THEN i
    ELSE FirstSeparator(t, seps, i + 1)

\* RecursiveCharacterTextSplitter._split_text: short pieces are merged, a
\* piece of chunk_size characters or more is split with the separators left
RECURSIVE _split_text(_, _, _)
RECURSIVE split_pieces(_, _, _, _)
split_pieces(splits, good_splits, new_separators, P) ==
    LET merged == IF good_splits = <<>> THEN <<>> ELSE _merge_splits(good_splits, P) IN
    IF splits = <<>> THEN merged
    ELSE LET s == Head(splits) IN
         IF Len(s) < P.chunk_size_chars
         THEN split_pieces(Tail(splits), Append(good_splits, s), new_separators, P)
         ELSE merged
                \o (IF new_separators = <<>> THEN <<s>>
                    ELSE _split_text(s, new_separators, P))
                \o split_pieces(Tail(splits), <<>>, new_separators, P)

_split_text(t, seps, P) ==
    LET i == FirstSeparator(t, seps, 1)
        separator == seps[i]
        new_separators == IF separator = <<>> THEN <<>> ELSE SubSeq(seps, i + 1, Len(seps))
    IN  split_pieces(_split_text_with_regex(t, separator), <<>>, new_separators, P)

\* DocumentProcessor._chunk_text: self.text_splitter.split_text(text)
_chunk_text(text, P) == _split_text(text, separators, P)

\* len(chunk.split()): the whitespace-separated words of a text
RECURSIVE WordCount(_)
WordCount(t) ==
    IF t = <<>> THEN 0
    ELSE IF Head(t) \in Whitespace THEN WordCount(Tail(t))
    ELSE IF Len(t) = 1 \/ t[2] \in Whitespace THEN 1 + WordCount(Tail(t))
    ELSE WordCount(Tail(t))

\* the file whose text the processor reads
TextFile == [dots |-> 0, dir |-> "", stem |-> "a", ext |-> ".txt"]

\* _extract_text: the characters of the file
extract_text(path) == fs[NameOf(path)].text

\* DocumentProcessor.process_file on a text file that exists: extract,
\* clean, chunk and number the chunks
process_text(file_path, P) ==
    LET text == extract_text(Path(file_path))
        cleaned_text == _clean_text(text)
        chunks == _chunk_text(cleaned_text, P)
    IN  [ok |-> TRUE, err |-> "none", text |-> text, cleaned_text |-> cleaned_text,
         chunks |-> doc_chunks(file_path, Path(file_path), chunks),
         log |-> <<Ev("extract", TRUE), Ev("split_text", TRUE)>>]

\* the texts a file holds
RawTexts == UNION {[1..n -> Chars] : n \in 0..MaxLen}

\* the chunk settings a processor is built with
SettingsArgs ==
    { [rag_chunk_size |-> cs, rag_chunk_overlap |-> co] :
        cs \in 1..MaxChunkWords, co \in 0..MaxOverlapWords }

InitText ==
    /\ \E text \in RawTexts :
         fs = [n \in FileNames |->
                 IF n = NameOf(TextFile) THEN [kind |-> "ok", n |-> 1, text |-> text]
                 ELSE [kind |-> "absent", n |-> 0, text |-> <<>>]]
    /\ collection = "None"
    /\ backend = NoBackend
    /\ now = 0
    /\ wx = WxReady
    /\ last = NoLast
    /\ prev = NoLast
    /\ processor = NoProcessor
    /\ tasks = <<>>
    /\ rag_tools = "RAGTools"

\* DocumentProcessor(settings)
DocumentProcessorInit ==
    \E settings \in SettingsArgs :
        LET r == document_processor_init(settings) IN
        /\ processor' = IF r.ok THEN r.processor ELSE processor
        /\ last' = [op |-> "DocumentProcessor", settings |-> settings,
                    ok |-> r.ok, err |-> r.err, log |-> <<>>]
        /\ UNCHANGED <<rag_tools, tasks, fs, collection, backend, now, wx, prev>>

\* processor.process_file(file_path) on the text file
ProcessText ==
    /\ processor.built
    /\ exists(Path(TextFile))
    /\ \E r \in {process_text(TextFile, processor)} :
        /\ last' = [op |-> "process_file", file_path |-> TextFile, text |-> r.text,
                    cleaned_text |-> r.cleaned_text,
                    ok |-> r.ok, err |-> r.err, chunks |-> r.chunks, log |-> r.log]
        /\ UNCHANGED <<rag_tools, processor, tasks, fs, collection, backend, now, wx, prev>>

NextText == DocumentProcessorInit \/ ProcessText

SpecText == InitText /\ [][NextText]_vars

(***************************************************************************)
(* WatsonxClient.  `f` is the number of consecutive calls the provider     *)
(* fails before it answers; every provider call and every backoff sleep    *)
(* of the tenacity decorator is logged.                                    *)
(***************************************************************************)
stop_after_attempt == 3

\* the provider's vector for a text
Vec(text) == [dim |-> wx.dim, of |-> text]

\* provider failures left after the calls of `log`
Left(f, log) ==
    LET used == Calls(log, "embed_documents") + Calls(log, "llm.generate_text")
    IN IF f > used THEN f - used ELSE 0

\* the body of generate_embeddings: one attempt
embeddings_attempt_unchecked(texts, f) ==
    IF f > 0
    THEN [ok |-> FALSE, err |-> "ProviderError", value |-> <<>>,
          log |-> <<Ev("embed_documents", FALSE)>>]
    ELSE [ok |-> TRUE, err |-> "none", value |-> [i \in 1..Len(texts) |-> Vec(texts[i])],
          log |-> <<Ev("embed_documents", TRUE)>>]

embeddings_attempt(texts, f) ==
    IF ~wx.embeddings
    THEN [ok |-> FALSE, err |-> "RuntimeError", value |-> <<>>, log |-> <<>>]
    ELSE IF f > 0
    THEN [ok |-> FALSE, err |-> "ProviderError", value |-> <<>>,
          log |-> <<Ev("embed_documents", FALSE)>>]
    ELSE [ok |-> TRUE, err |-> "none", value |-> [i \in 1..Len(texts) |-> Vec(texts[i])],
          log |-> <<Ev("embed_documents", TRUE)>>]

\* @retry(stop=stop_after_attempt(3), wait=wait_exponential(...)) around it
RECURSIVE generate_embeddings_from(_, _, _)
generate_embeddings_from(attempt, texts, f) ==
    LET r == embeddings_attempt(texts, f) IN
    IF r.ok THEN r
    ELSE IF attempt >= stop_after_attempt
    THEN [r EXCEPT !.err = "RetryError"]
    ELSE LET rest == generate_embeddings_from(attempt + 1, texts, Left(f, r.log))
         IN [rest EXCEPT !.log = r.log \o <<Ev("sleep", TRUE)>> \o @]

\* WatsonxClient.generate_embeddings
generate_embeddings_once(texts, f) == embeddings_attempt(texts, f)

generate_embeddings(texts, f) == generate_embeddings_from(1, texts, f)

\* the body of generate_embedding: generate_embeddings([text])[0]
embedding_attempt(text, f) ==
    LET r == generate_embeddings(<<text>>, f) IN
    IF r.ok THEN [r EXCEPT !.value = r.value[1]] ELSE r

\* its own @retry(stop=stop_after_attempt(3), ...) around that
RECURSIVE generate_embedding_from(_, _, _)
generate_embedding_from(attempt, text, f) ==
    LET r == embedding_attempt(text, f) IN
    IF r.ok THEN r
    ELSE IF attempt >= stop_after_attempt
    THEN [r EXCEPT !.err = "RetryError"]
    ELSE LET rest == generate_embedding_from(attempt + 1, text, Left(f, r.log))
         IN [rest EXCEPT !.log = r.log \o <<Ev("sleep", TRUE)>> \o @]

\* WatsonxClient.generate_embedding
generate_embedding(text, f) == generate_embedding_from(1, text, f)

\* the body of generate_text: one attempt
text_attempt(prompt, f) ==
    IF ~wx.llm
    THEN [ok |-> FALSE, err |-> "RuntimeError", value |-> <<>>, log |-> <<>>]
    ELSE IF f > 0
    THEN [ok |-> FALSE, err |-> "ProviderError", value |-> <<>>,
          log |-> <<Ev("llm.generate_text", FALSE)>>]
    ELSE [ok |-> TRUE, err |-> "none", value |-> <<[answer_to |-> prompt]>>,
          log |-> <<Ev("llm.generate_text", TRUE)>>]

RECURSIVE generate_text_from(_, _, _)
generate_text_from(attempt, prompt, f) ==
    LET r == text_attempt(prompt, f) IN
    IF r.ok THEN r
    ELSE IF attempt >= stop_after_attempt
    THEN [r EXCEPT !.err = "RetryError"]
    ELSE LET rest == generate_text_from(attempt + 1, prompt, Left(f, r.log))
         IN [rest EXCEPT !.log = r.log \o <<Ev("sleep", TRUE)>> \o @]

\* WatsonxClient.generate_text
generate_text_four_attempts(prompt, f) == generate_text_from(0, prompt, f)

generate_text(prompt, f) == generate_text_from(1, prompt, f)

\* WatsonxClient.health_check: the except clause turns every failure of the
\* embed call into False
watsonx_health_check_any_vector(f) ==
    LET r == generate_embedding("health check", f) IN
    [ok |-> TRUE, err |-> "none", value |-> r.ok, log |-> r.log]

watsonx_health_check(f) ==
    LET r == generate_embedding("health check", f) IN
    IF ~r.ok
    THEN [ok |-> TRUE, err |-> "none", value |-> FALSE, log |-> r.log]
    ELSE [ok |-> TRUE, err |-> "none", value |-> (r.value.dim = embedding_dimension),
          log |-> r.log]

(***************************************************************************)
(* Specification of the Watsonx client alone.                              *)
(***************************************************************************)
Texts == {"t1", "t2"}

TextLists == {<<>>, <<"t1">>, <<"t1", "t2">>}

\* the client as constructed, with one of its model handles unset, and with
\* an embedding model of another vector length behind it
WxStates ==
    { WxReady, [WxReady EXCEPT !.embeddings = FALSE], [WxReady EXCEPT !.llm = FALSE],
      [WxReady EXCEPT !.dim = 512] }

InitEmbed ==
    /\ fs = [n \in FileNames |-> [kind |-> "absent", n |-> 0]]
    /\ collection = "None"
    /\ backend = NoBackend
    /\ now = 0
    /\ wx \in WxStates
    /\ last = NoLast
    /\ prev = NoLast
    /\ processor = DefaultProcessor
    /\ tasks = <<>>
    /\ rag_tools = "RAGTools"

GenerateEmbeddings ==
    \E texts \in TextLists, f \in 0..MaxFailures :
        \E r \in {generate_embeddings(texts, f)} :
        /\ last' = [op |-> "generate_embeddings", texts |-> texts, f |-> f,
                    ok |-> r.ok, err |-> r.err, value |-> r.value, log |-> r.log]
        /\ UNCHANGED <<rag_tools, processor, tasks, fs, collection, backend, now, wx, prev>>

GenerateEmbedding ==
    \E text \in Texts, f \in 0..MaxFailures :
        \E r \in {generate_embedding(text, f)} :
        /\ last' = [op |-> "generate_embedding", texts |-> <<text>>, f |-> f,
                    ok |-> r.ok, err |-> r.err, value |-> r.value, log |-> r.log]
        /\ UNCHANGED <<rag_tools, processor, tasks, fs, collection, backend, now, wx, prev>>

GenerateText ==
    \E prompt \in Texts, f \in 0..MaxFailures :
        \E r \in {generate_text(prompt, f)} :
        /\ last' = [op |-> "generate_text", texts |-> <<prompt>>, f |-> f,
                    ok |-> r.ok, err |-> r.err, value |-> r.value, log |-> r.log]
        /\ UNCHANGED <<rag_tools, processor, tasks, fs, collection, backend, now, wx, prev>>

WatsonxHealthCheck ==
    \E f \in 0..MaxFailures :
        \E r \in {watsonx_health_check(f)} :
        /\ last' = [op |-> "watsonx.health_check", texts |-> <<"health check">>, f |-> f,
                    ok |-> r.ok, err |-> r.err, value |-> r.value, log |-> r.log]
        /\ UNCHANGED <<rag_tools, processor, tasks, fs, collection, backend, now, wx, prev>>

NextEmbed == GenerateEmbeddings \/ GenerateEmbedding \/ GenerateText \/ WatsonxHealthCheck

SpecEmbed == InitEmbed /\ [][NextEmbed]_vars

(***************************************************************************)
(* MilvusClient.  `fail` names the backend call that raises during the     *)
(* handler ("none": every backend call succeeds).  Scores are in tenths.   *)
(***************************************************************************)
milvus_metric_type == "COSINE"

milvus_collection_name == "rag_knowledge_base"

rag_top_k == 5

\* rag_score_threshold = 0.7, in tenths
rag_score_threshold == 7

\* Optional[...] arguments: <<>> is None, <<x>> is the value x
None == <<>>

\* Python's `x or default`: the default replaces None and every falsy value
Or(opt, default) == IF opt = None \/ opt[1] = 0 THEN default ELSE opt[1]

\* _create_collection: Collection(name, schema), then create_index
create_collection(fail) ==
    LET created == [exists |-> TRUE, dim |-> embedding_dimension, metric |-> "none",
                    indexed |-> FALSE, loaded |-> FALSE, records |-> <<>>]
    IN IF fail = "create"
       THEN [ok |-> FALSE, backend |-> NoBackend, log |-> <<Ev("create", FALSE)>>]
       ELSE IF fail = "create_index"
       THEN [ok |-> FALSE, backend |-> created,
             log |-> <<Ev("create", TRUE), Ev("create_index", FALSE)>>]
       ELSE [ok |-> TRUE,
             backend |-> [created EXCEPT !.metric = milvus_metric_type, !.indexed = TRUE],
             log |-> <<Ev("create", TRUE), Ev("create_index", TRUE)>>]

\* the state MilvusClient.__init__ leaves when it created the collection
ReadyBackend == [create_collection("none").backend EXCEPT !.loaded = TRUE]

\* MilvusClient._connect
connect(fail) ==
    IF fail = "connect"
    THEN [ok |-> FALSE, err |-> "MilvusException", log |-> <<Ev("connect", FALSE)>>]
    ELSE [ok |-> TRUE, err |-> "none", log |-> <<Ev("connect", TRUE)>>]

\* MilvusClient._initialize_collection; `handle` is self.collection as the
\* method leaves it
initialize_collection(fail) ==
    IF fail = "has_collection"
    THEN [ok |-> FALSE, err |-> "MilvusException", handle |-> "None",
          backend |-> backend, log |-> <<Ev("has_collection", FALSE)>>]
    ELSE LET c == IF backend.exists
                  THEN IF fail = "open"
                       THEN [ok |-> FALSE, backend |-> backend,
                             log |-> <<Ev("open", FALSE)>>]
                       ELSE [ok |-> TRUE, backend |-> backend,
                             log |-> <<Ev("open", TRUE)>>]
                  ELSE create_collection(fail)
             log == <<Ev("has_collection", TRUE)>> \o c.log
         IN IF ~c.ok
            THEN [ok |-> FALSE, err |-> "MilvusException", handle |-> "None",
                  backend |-> c.backend, log |-> log]
            ELSE IF fail = "load"
            THEN [ok |-> FALSE, err |-> "MilvusException", handle |-> "Collection",
                  backend |-> c.backend, log |-> log \o <<Ev("load", FALSE)>>]
            ELSE [ok |-> TRUE, err |-> "none", handle |-> "Collection",
                  backend |-> [c.backend EXCEPT !.loaded = TRUE],
                  log |-> log \o <<Ev("load", TRUE)>>]

\* MilvusClient.__init__
milvus_init_ignoring_connect(fail) ==
    LET c == connect(fail)
        i == initialize_collection(fail)
    IN [i EXCEPT !.log = c.log \o @]

milvus_init(fail) ==
    LET c == connect(fail) IN
    IF ~c.ok
    THEN [ok |-> FALSE, err |-> c.err, handle |-> "None", backend |-> backend,
          log |-> c.log]
    ELSE LET i == initialize_collection(fail)
         IN [i EXCEPT !.log = c.log \o @]

\* the rows the backend stores for data = [ids, texts, vectors, sources, timestamps]
Rows(ids, texts, vectors, sources, timestamps) ==
    [i \in 1..Len(ids) |->
        [id |-> ids[i], text |-> texts[i], vector |-> vectors[i],
         source |-> sources[i], timestamp |-> timestamps[i]]]

\* the backend accepts the columns: equal lengths, vectors of the schema's dim
Accepts_any_dimension(b, ids, texts, vectors, sources) ==
    /\ b.exists
    /\ Len(texts) = Len(ids) /\ Len(vectors) = Len(ids) /\ Len(sources) = Len(ids)

Accepts(b, ids, texts, vectors, sources) ==
    /\ b.exists
    /\ Len(texts) = Len(ids) /\ Len(vectors) = Len(ids) /\ Len(sources) = Len(ids)
    /\ \A i \in 1..Len(vectors) : vectors[i].dim = b.dim

insert_without_flush(ids, texts, vectors, sources, fail) ==
    IF collection = "None"
    THEN [ok |-> FALSE, err |-> "RuntimeError", backend |-> backend, log |-> <<>>]
    ELSE IF fail = "insert" \/ ~Accepts(backend, ids, texts, vectors, sources)
    THEN [ok |-> FALSE, err |-> "MilvusException", backend |-> backend,
          log |-> <<Ev("insert", FALSE)>>]
    ELSE [ok |-> TRUE, err |-> "none",
          backend |-> [backend EXCEPT !.records =
                          @ \o Rows(ids, texts, vectors, sources,
                                    [i \in 1..Len(ids) |-> now])],
          log |-> <<Ev("insert", TRUE)>>]

\* MilvusClient.insert
insert_stamping_rows(ids, texts, vectors, sources, fail) ==
    IF collection = "None"
    THEN [ok |-> FALSE, err |-> "RuntimeError", backend |-> backend, log |-> <<>>]
    ELSE LET timestamps == [i \in 1..Len(ids) |-> now + i]
         IN IF fail = "insert" \/ ~Accepts(backend, ids, texts, vectors, sources)
            THEN [ok |-> FALSE, err |-> "MilvusException", backend |-> backend,
                  log |-> <<Ev("insert", FALSE)>>]
            ELSE LET b == [backend EXCEPT !.records =
                              @ \o Rows(ids, texts, vectors, sources, timestamps)]
                 IN IF fail = "flush"
                    THEN [ok |-> FALSE, err |-> "MilvusException", backend |-> b,
                          log |-> <<Ev("insert", TRUE), Ev("flush", FALSE)>>]
                    ELSE [ok |-> TRUE, err |-> "none", backend |-> b,
                          log |-> <<Ev("insert", TRUE), Ev("flush", TRUE)>>]

insert(ids, texts, vectors, sources, fail) ==
    IF collection = "None"
    THEN [ok |-> FALSE, err |-> "RuntimeError", backend |-> backend, log |-> <<>>]
    ELSE LET timestamp == now
             timestamps == [i \in 1..Len(ids) |-> timestamp]
         IN IF fail = "insert" \/ ~Accepts(backend, ids, texts, vectors, sources)
            THEN [ok |-> FALSE, err |-> "MilvusException", backend |-> backend,
                  log |-> <<Ev("insert", FALSE)>>]
            ELSE LET b == [backend EXCEPT !.records =
                              @ \o Rows(ids, texts, vectors, sources, timestamps)]
                 IN IF fail = "flush"
                    THEN [ok |-> FALSE, err |-> "MilvusException", backend |-> b,
                          log |-> <<Ev("insert", TRUE), Ev("flush", FALSE)>>]
                    ELSE [ok |-> TRUE, err |-> "none", backend |-> b,
                          log |-> <<Ev("insert", TRUE), Ev("flush", TRUE)>>]

\* collection.search(limit = top_k): the backend's hits for the ranking
\* `order` (record positions, best first) with the scores `sc`
Hits(order, sc, limit) ==
    [i \in 1..(IF Len(order) < limit THEN Len(order) ELSE limit) |->
        [entity |-> backend.records[order[i]], score |-> sc[order[i]]]]

\* the loop over hits: keep those at or above the threshold
RECURSIVE Processed(_, _)
Processed(hits, threshold) ==
    IF hits = <<>> THEN <<>>
    ELSE (IF Head(hits).score >= threshold
          THEN <<[id |-> Head(hits).entity.id, text |-> Head(hits).entity.text,
                  source |-> Head(hits).entity.source,
                  timestamp |-> Head(hits).entity.timestamp, score |-> Head(hits).score]>>
          ELSE <<>>) \o Processed(Tail(hits), threshold)

\* MilvusClient.search
search(query_vector, top_k, score_threshold, order, sc, fail) ==
    IF collection = "None"
    THEN [ok |-> FALSE, err |-> "RuntimeError", results |-> <<>>, hits |-> <<>>,
          log |-> <<>>]
    ELSE LET k == Or(top_k, rag_top_k)
             t == Or(score_threshold, rag_score_threshold)
         IN IF fail = "search" \/ ~backend.exists \/ query_vector.dim # backend.dim
            THEN [ok |-> FALSE, err |-> "MilvusException", results |-> <<>>,
                  hits |-> <<>>, log |-> <<Ev("search", FALSE)>>]
            ELSE [ok |-> TRUE, err |-> "none",
                  results |-> Processed(Hits(order, sc, k), t),
                  hits |-> Hits(order, sc, k), log |-> <<Ev("search", TRUE)>>]

\* MilvusClient.delete
delete_without_flush(ids, fail) ==
    IF collection = "None"
    THEN [ok |-> FALSE, err |-> "RuntimeError", backend |-> backend, log |-> <<>>]
    ELSE IF fail = "delete" \/ ~backend.exists
    THEN [ok |-> FALSE, err |-> "MilvusException", backend |-> backend,
          log |-> <<Ev("delete", FALSE)>>]
    ELSE LET Keep(r) == r.id \notin ids
         IN [ok |-> TRUE, err |-> "none",
             backend |-> [backend EXCEPT !.records = SelectSeq(@, Keep)],
             log |-> <<Ev("delete", TRUE)>>]

delete(ids, fail) ==
    IF collection = "None"
    THEN [ok |-> FALSE, err |-> "RuntimeError", backend |-> backend, log |-> <<>>]
    ELSE IF fail = "delete" \/ ~backend.exists
    THEN [ok |-> FALSE, err |-> "MilvusException", backend |-> backend,
          log |-> <<Ev("delete", FALSE)>>]
    ELSE LET Keep(r) == r.id \notin ids
             b == [backend EXCEPT !.records = SelectSeq(@, Keep)]
         IN IF fail = "flush"
            THEN [ok |-> FALSE, err |-> "MilvusException", backend |-> b,
                  log |-> <<Ev("delete", TRUE), Ev("flush", FALSE)>>]
            ELSE [ok |-> TRUE, err |-> "none", backend |-> b,
                  log |-> <<Ev("delete", TRUE), Ev("flush", TRUE)>>]

NoStats == [collection_name |-> "", num_entities |-> 0, metric_type |-> "", dimension |-> 0]

\* MilvusClient.get_stats
get_stats_unguarded(fail) ==
    IF fail = "num_entities" \/ ~backend.exists \/ collection = "None"
    THEN [ok |-> FALSE, err |-> "MilvusException", stats |-> NoStats,
          log |-> <<Ev("num_entities", FALSE)>>]
    ELSE [ok |-> TRUE, err |-> "none",
          stats |-> [collection_name |-> milvus_collection_name,
                     num_entities |-> Len(backend.records),
                     metric_type |-> milvus_metric_type,
                     dimension |-> embedding_dimension],
          log |-> <<Ev("num_entities", TRUE)>>]

get_stats(fail) ==
    IF collection = "None"
    THEN [ok |-> FALSE, err |-> "RuntimeError", stats |-> NoStats, log |-> <<>>]
    ELSE IF fail = "num_entities" \/ ~backend.exists
    THEN [ok |-> FALSE, err |-> "MilvusException", stats |-> NoStats,
          log |-> <<Ev("num_entities", FALSE)>>]
    ELSE [ok |-> TRUE, err |-> "none",
          stats |-> [collection_name |-> milvus_collection_name,
                     num_entities |-> Len(backend.records),
                     metric_type |-> milvus_metric_type,
                     dimension |-> embedding_dimension],
          log |-> <<Ev("num_entities", TRUE)>>]

\* MilvusClient.clear_collection
clear_collection_keep(fail) ==
    IF collection = "None"
    THEN [ok |-> FALSE, err |-> "RuntimeError", backend |-> backend, log |-> <<>>]
    ELSE IF fail = "drop" \/ ~backend.exists
    THEN [ok |-> FALSE, err |-> "MilvusException", backend |-> backend,
          log |-> <<Ev("drop", FALSE)>>]
    ELSE [ok |-> TRUE, err |-> "none", backend |-> [backend EXCEPT !.loaded = TRUE],
          log |-> <<Ev("drop", TRUE), Ev("load", TRUE)>>]

clear_collection(fail) ==
    IF collection = "None"
    THEN [ok |-> FALSE, err |-> "RuntimeError", backend |-> backend, log |-> <<>>]
    ELSE IF fail = "drop" \/ ~backend.exists
    THEN [ok |-> FALSE, err |-> "MilvusException", backend |-> backend,
          log |-> <<Ev("drop", FALSE)>>]
    ELSE LET c == create_collection(fail) IN
         IF ~c.ok
         THEN [ok |-> FALSE, err |-> "MilvusException", backend |-> c.backend,
               log |-> <<Ev("drop", TRUE)>> \o c.log]
         ELSE IF fail = "load"
         THEN [ok |-> FALSE, err |-> "MilvusException", backend |-> c.backend,
               log |-> <<Ev("drop", TRUE)>> \o c.log \o <<Ev("load", FALSE)>>]
         ELSE [ok |-> TRUE, err |-> "none",
               backend |-> [c.backend EXCEPT !.loaded = TRUE],
               log |-> <<Ev("drop", TRUE)>> \o c.log \o <<Ev("load", TRUE)>>]

\* MilvusClient.health_check
milvus_health_check_handle_only(fail) ==
    [ok |-> TRUE, err |-> "none", value |-> (collection # "None"), log |-> <<>>]

milvus_health_check(fail) ==
    IF collection = "None"
    THEN [ok |-> TRUE, err |-> "none", value |-> FALSE, log |-> <<>>]
    ELSE IF fail = "num_entities" \/ ~backend.exists
    THEN [ok |-> TRUE, err |-> "none", value |-> FALSE,
          log |-> <<Ev("num_entities", FALSE)>>]
    ELSE [ok |-> TRUE, err |-> "none", value |-> TRUE,
          log |-> <<Ev("num_entities", TRUE)>>]

(***************************************************************************)
(* Specification of the Milvus client alone: a constructed client whose    *)
(* collection was created empty.                                           *)
(***************************************************************************)
Scores == {5, 9}

TopKArgs == {None} \cup {<<k>> : k \in 0..MaxTopK}

ThresholdArgs == {None, <<0>>, <<5>>}

\* the rankings a backend can produce for the stored records: every record
\* has a score and the order is by descending score
Rankings ==
    { os \in Perms(1..Len(backend.records)) \X [1..Len(backend.records) -> Scores] :
        \A i \in 1..(Len(os[1]) - 1) : os[2][os[1][i]] >= os[2][os[1][i + 1]] }

SamplePath == [dots |-> 0, dir |-> "", stem |-> "a", ext |-> ".txt"]

SampleChunks ==
    { [id |-> generate_chunk_id(SamplePath, i),
       text |-> [doc |-> NameOf(SamplePath), part |-> i],
       source |-> SamplePath] : i \in 0..1 }

Batches == {<<c>> : c \in SampleChunks} \cup {<<c, d>> : c \in SampleChunks, d \in SampleChunks}

InitStore ==
    /\ fs = [n \in FileNames |-> [kind |-> "absent", n |-> 0]]
    /\ collection = "Collection"
    /\ backend = ReadyBackend
    /\ now = 0
    /\ wx = WxReady
    /\ last = NoLast
    /\ prev = NoLast
    /\ processor = DefaultProcessor
    /\ tasks = <<>>
    /\ rag_tools = "RAGTools"

\* the argument lists a caller passes for a batch of chunks: the columns of
\* the batch with the provider's vectors, the same with a vector of another
\* length, and the same with one list a row short
Columns(batch) ==
    LET good == [ids |-> Column(batch, "id"), texts |-> Column(batch, "text"),
                 vectors |-> [i \in 1..Len(batch) |-> Vec(batch[i].text)],
                 sources |-> Column(batch, "source")]
    IN { good,
         [good EXCEPT !.vectors[Len(batch)].dim = 512],
         [good EXCEPT !.ids = Tail(@)],
         [good EXCEPT !.texts = Tail(@)],
         [good EXCEPT !.vectors = Tail(@)],
         [good EXCEPT !.sources = Tail(@)] }

Insert ==
    \E batch \in Batches, fail \in {"none", "insert", "flush"} :
      \E c \in Columns(batch) :
        \E r \in {insert(c.ids, c.texts, c.vectors, c.sources, fail)} :
           /\ Len(backend.records) + Len(batch) <= MaxRecords
           /\ backend' = r.backend
           /\ last' = [op |-> "insert", ids |-> c.ids, texts |-> c.texts,
                       vectors |-> c.vectors, sources |-> c.sources, at |-> now,
                       before |-> backend, ok |-> r.ok, err |-> r.err, log |-> r.log]
           /\ UNCHANGED <<rag_tools, processor, tasks, fs, collection, now, wx, prev>>

Search ==
    \E top_k \in TopKArgs, score_threshold \in ThresholdArgs, fail \in {"none", "search"} :
      \E os \in IF fail = "none" THEN Rankings ELSE {<<<<>>, <<>>>>} :
        \E r \in {search(Vec("t1"), top_k, score_threshold, os[1], os[2], fail)} :
        /\ last' = [op |-> "search", top_k |-> top_k,
                    score_threshold |-> score_threshold,
                    ok |-> r.ok, err |-> r.err, results |-> r.results,
                    hits |-> r.hits, log |-> r.log]
        /\ UNCHANGED <<rag_tools, processor, tasks, fs, collection, backend, now, wx, prev>>

Delete ==
    \E ids \in SUBSET {c.id : c \in SampleChunks}, fail \in {"none", "delete", "flush"} :
        \E r \in {delete(ids, fail)} :
        /\ ids # {}
        /\ backend' = r.backend
        /\ last' = [op |-> "delete", ids |-> ids, ok |-> r.ok, err |-> r.err,
                    log |-> r.log]
        /\ UNCHANGED <<rag_tools, processor, tasks, fs, collection, now, wx, prev>>

GetStats ==
    \E fail \in {"none", "num_entities"} :
        \E r \in {get_stats(fail)} :
        /\ last' = [op |-> "get_stats", ok |-> r.ok, err |-> r.err,
                    stats |-> r.stats, log |-> r.log]
        /\ UNCHANGED <<rag_tools, processor, tasks, fs, collection, backend, now, wx, prev>>

ClearCollection ==
    \E fail \in {"none", "drop", "create", "create_index", "load"} :
        \E r \in {clear_collection(fail)} :
        /\ backend' = r.backend
        /\ last' = [op |-> "clear_collection", ok |-> r.ok, err |-> r.err,
                    before |-> backend, log |-> r.log]
        /\ UNCHANGED <<rag_tools, processor, tasks, fs, collection, now, wx, prev>>

NextStore == Insert \/ Search \/ Delete \/ GetStats \/ ClearCollection

SpecStore == InitStore /\ [][NextStore]_vars

(***************************************************************************)
(* Specification of the Milvus client from its construction on: the client *)
(* starts with self.collection = None, over a server that holds no         *)
(* collection or the collection an earlier run created.                    *)
(***************************************************************************)
InitClient ==
    /\ fs = [n \in FileNames |-> [kind |-> "absent", n |-> 0]]
    /\ collection = "None"
    /\ backend \in {NoBackend, [ReadyBackend EXCEPT !.loaded = FALSE]}
    /\ now = 0
    /\ wx = WxReady
    /\ last = NoLast
    /\ prev = NoLast
    /\ processor = DefaultProcessor
    /\ tasks = <<>>
    /\ rag_tools = "RAGTools"

MilvusInit ==
    \E fail \in {"none", "connect", "has_collection", "open", "create",
                  "create_index", "load"} :
        \E r \in {milvus_init(fail)} :
        /\ collection = "None"
        /\ collection' = IF r.ok THEN r.handle ELSE "None"
        /\ backend' = r.backend
        /\ last' = [op |-> "init", before |-> backend, handle |-> r.handle,
                    ok |-> r.ok, err |-> r.err, log |-> r.log]
        /\ UNCHANGED <<rag_tools, processor, tasks, fs, now, wx, prev>>

MilvusHealthCheck ==
    \E fail \in {"none", "num_entities"} :
        \E r \in {milvus_health_check(fail)} :
        /\ last' = [op |-> "milvus.health_check", fail |-> fail, ok |-> r.ok,
                    err |-> r.err, value |-> r.value, log |-> r.log]
        /\ UNCHANGED <<rag_tools, processor, tasks, fs, collection, backend, now, wx, prev>>

\* the wall clock datetime.now() reads advances
Tick ==
    /\ now < MaxTime
    /\ now' = now + 1
    /\ UNCHANGED <<rag_tools, processor, tasks, fs, collection, backend, wx, last, prev>>

NextClient ==
    \/ MilvusInit
    \/ Insert
    \/ Search
    \/ Delete
    \/ GetStats
    \/ ClearCollection
    \/ MilvusHealthCheck
    \/ Tick

SpecClient == InitClient /\ [][NextClient]_vars

(***************************************************************************)
(* Specification of the two service clients side by side.                  *)
(***************************************************************************)
InitServices ==
    /\ fs = [n \in FileNames |-> [kind |-> "absent", n |-> 0]]
    /\ collection = "None"
    /\ backend = NoBackend
    /\ now = 0
    /\ wx \in {w \in WxStates : w.dim = embedding_dimension}
    /\ last = NoLast
    /\ prev = NoLast
    /\ processor = DefaultProcessor
    /\ tasks = <<>>
    /\ rag_tools = "RAGTools"

NextServices ==
    \/ MilvusInit
    \/ Insert
    \/ Search
    \/ Delete
    \/ GetStats
    \/ ClearCollection
    \/ GenerateEmbeddings
    \/ GenerateEmbedding
    \/ GenerateText

SpecServices == InitServices /\ [][NextServices]_vars

(***************************************************************************)
(* RAGTools.  fe / fg: consecutive failures of the embedding / text        *)
(* provider; order, sc: the backend's ranking; sfail, fail: the backend    *)
(* call that raises.                                                       *)
(***************************************************************************)
NoInfoAnswer == "I couldn't find any relevant information to answer your query."

NoResponse == [status |-> "raised"]

build_rag_prompt_joined_by_newline(q, context_texts) ==
    [context |-> [join |-> "\n", parts |-> context_texts], question |-> q]

\* _build_rag_prompt, with context = "\n\n".join(context_texts)
build_rag_prompt(q, context_texts) ==
    [context |-> [join |-> "\n\n", parts |-> context_texts], question |-> q]

\* RAGTools.query
query_always_generate(q, top_k, include_sources, fe, order, sc, sfail, fg) ==
    LET e == generate_embedding(q, fe) IN
    IF ~e.ok
    THEN [ok |-> FALSE, err |-> e.err, response |-> NoResponse, searched |-> FALSE,
          results |-> <<>>, log |-> e.log]
    ELSE LET s == search(e.value, top_k, None, order, sc, sfail) IN
    IF ~s.ok
    THEN [ok |-> FALSE, err |-> s.err, response |-> NoResponse, searched |-> FALSE,
          results |-> <<>>, log |-> e.log \o s.log]
    ELSE LET context_texts == Column(s.results, "text")
             g == generate_text(build_rag_prompt(q, context_texts), fg)
         IN IF ~g.ok
            THEN [ok |-> FALSE, err |-> g.err, response |-> NoResponse,
                  searched |-> TRUE, results |-> s.results,
                  log |-> e.log \o s.log \o g.log]
            ELSE [ok |-> TRUE, err |-> "none",
                  response |-> [answer |-> g.value[1], context |-> context_texts],
                  searched |-> TRUE, results |-> s.results,
                  log |-> e.log \o s.log \o g.log]

query(q, top_k, include_sources, fe, order, sc, sfail, fg) ==
    LET e == generate_embedding(q, fe) IN
    IF ~e.ok
    THEN [ok |-> FALSE, err |-> e.err, response |-> NoResponse, searched |-> FALSE,
          results |-> <<>>, log |-> e.log]
    ELSE LET s == search(e.value, top_k, None, order, sc, sfail) IN
    IF ~s.ok
    THEN [ok |-> FALSE, err |-> s.err, response |-> NoResponse, searched |-> FALSE,
          results |-> <<>>, log |-> e.log \o s.log]
    ELSE IF s.results = <<>>
    THEN [ok |-> TRUE, err |-> "none",
          response |-> [answer |-> NoInfoAnswer, context |-> <<>>, sources |-> <<>>],
          searched |-> TRUE, results |-> s.results, log |-> e.log \o s.log]
    ELSE LET context_texts == Column(s.results, "text")
             g == generate_text(build_rag_prompt(q, context_texts), fg)
             sources == [i \in 1..Len(s.results) |->
                            [source |-> s.results[i].source,
                             score |-> s.results[i].score,
                             chunk_id |-> s.results[i].id]]
         IN IF ~g.ok
            THEN [ok |-> FALSE, err |-> g.err, response |-> NoResponse,
                  searched |-> TRUE, results |-> s.results,
                  log |-> e.log \o s.log \o g.log]
            ELSE [ok |-> TRUE, err |-> "none",
                  response |-> IF include_sources
                               THEN [answer |-> g.value[1], context |-> context_texts,
                                     sources |-> sources]
                               ELSE [answer |-> g.value[1], context |-> context_texts],
                  searched |-> TRUE, results |-> s.results,
                  log |-> e.log \o s.log \o g.log]

\* RAGTools.search
tools_search(q, top_k, fe, order, sc, sfail) ==
    LET e == generate_embedding(q, fe) IN
    IF ~e.ok
    THEN [ok |-> FALSE, err |-> e.err, response |-> NoResponse, log |-> e.log]
    ELSE LET s == search(e.value, top_k, None, order, sc, sfail) IN
    IF ~s.ok
    THEN [ok |-> FALSE, err |-> s.err, response |-> NoResponse, log |-> e.log \o s.log]
    ELSE [ok |-> TRUE, err |-> "none",
          response |-> [query |-> q, results |-> s.results, count |-> Len(s.results)],
          log |-> e.log \o s.log]

\* the part of index_document / index_directory after the chunks are there:
\* embed all texts in one batch, then insert
embed_and_insert_ignoring_embed_failure(chunks, fe, fail, log, done) ==
    LET texts == Column(chunks, "text")
        e == generate_embeddings(texts, fe)
        ins == insert(Column(chunks, "id"), texts,
                      [i \in 1..Len(texts) |-> Vec(texts[i])],
                      Column(chunks, "source"), fail)
    IN IF ~ins.ok
       THEN [ok |-> FALSE, err |-> ins.err, response |-> NoResponse,
             backend |-> ins.backend, log |-> log \o e.log \o ins.log]
       ELSE [ok |-> TRUE, err |-> "none", response |-> done,
             backend |-> ins.backend, log |-> log \o e.log \o ins.log]

embed_and_insert(chunks, fe, fail, log, done) ==
    LET texts == Column(chunks, "text")
        e == generate_embeddings(texts, fe)
    IN IF ~e.ok
       THEN [ok |-> FALSE, err |-> e.err, response |-> NoResponse,
             backend |-> backend, log |-> log \o e.log]
       ELSE LET ins == insert(Column(chunks, "id"), texts, e.value,
                              Column(chunks, "source"), fail)
            IN IF ~ins.ok
               THEN [ok |-> FALSE, err |-> ins.err, response |-> NoResponse,
                     backend |-> ins.backend, log |-> log \o e.log \o ins.log]
               ELSE [ok |-> TRUE, err |-> "none", response |-> done,
                     backend |-> ins.backend, log |-> log \o e.log \o ins.log]

\* RAGTools.index_document
index_document_no_empty_check(file_path, fe, fail) ==
    LET p == process_file(file_path) IN
    IF ~p.ok
    THEN [ok |-> FALSE, err |-> p.err, response |-> NoResponse, backend |-> backend,
          log |-> p.log]
    ELSE embed_and_insert(p.chunks, fe, fail, p.log,
            [status |-> "success", message |-> "Document indexed successfully",
             chunks_indexed |-> Len(p.chunks), file_path |-> file_path])

index_document(file_path, fe, fail) ==
    LET p == process_file(file_path) IN
    IF ~p.ok
    THEN [ok |-> FALSE, err |-> p.err, response |-> NoResponse, backend |-> backend,
          log |-> p.log]
    ELSE IF p.chunks = <<>>
    THEN [ok |-> TRUE, err |-> "none",
          response |-> [status |-> "error",
                        message |-> "No content extracted from document",
                        chunks_indexed |-> 0],
          backend |-> backend, log |-> p.log]
    ELSE embed_and_insert(p.chunks, fe, fail, p.log,
            [status |-> "success", message |-> "Document indexed successfully",
             chunks_indexed |-> Len(p.chunks), file_path |-> file_path])

\* RAGTools.index_directory
index_directory(directory_path, files, fe, fail) ==
    LET p == process_directory(directory_path, files) IN
    IF ~p.ok
    THEN [ok |-> FALSE, err |-> p.err, response |-> NoResponse, backend |-> backend,
          log |-> p.log]
    ELSE IF p.chunks = <<>>
    THEN [ok |-> TRUE, err |-> "none",
          response |-> [status |-> "error",
                        message |-> "No documents found or processed",
                        chunks_indexed |-> 0],
          backend |-> backend, log |-> p.log]
    ELSE embed_and_insert(p.chunks, fe, fail, p.log,
            [status |-> "success", message |-> "Directory indexed successfully",
             chunks_indexed |-> Len(p.chunks), directory_path |-> directory_path])

(***************************************************************************)
(* Specifications of RAGTools: indexing over every file system of the      *)
(* model (SpecIndex), and indexing plus querying over a few (SpecTools).   *)
(***************************************************************************)
\* provider failure counts that take each path through the retry decorators
FailureCounts == {0, 3, 9} \cap (0..MaxFailures)

BatchFailureCounts == {0, 2, 3} \cap (0..MaxFailures)

InitIndex ==
    /\ fs \in FsStates
    /\ collection = "Collection"
    /\ backend = ReadyBackend
    /\ now = 0
    /\ wx = WxReady
    /\ last = NoLast
    /\ prev = NoLast
    /\ processor = DefaultProcessor
    /\ tasks = <<>>
    /\ rag_tools = "RAGTools"

\* a.txt holds one chunk or more, b.PDF is unreadable, e.xyz exists
ToolFs ==
    { f \in FsStates :
        /\ f[[dir |-> "", stem |-> "a", ext |-> ".txt"]].kind = "ok"
        /\ f[[dir |-> "", stem |-> "a", ext |-> ".txt"]].n >= 1
        /\ f[[dir |-> "sub", stem |-> "b", ext |-> ".PDF"]].kind = "corrupt"
        /\ f[[dir |-> "", stem |-> "e", ext |-> ".xyz"]].kind = "ok" }

InitTools ==
    /\ fs \in ToolFs
    /\ collection = "Collection"
    /\ backend = ReadyBackend
    /\ now = 0
    /\ wx = WxReady
    /\ last = NoLast
    /\ prev = NoLast
    /\ processor = DefaultProcessor
    /\ tasks = <<>>
    /\ rag_tools = "RAGTools"

IndexDocument ==
    \E file_path \in PathArgs, fe \in BatchFailureCounts,
       fail \in {"none", "insert", "flush"} :
        \E r \in {index_document(file_path, fe, fail)} :
        /\ Len(r.backend.records) <= MaxRecords
        /\ backend' = r.backend
        /\ last' = [op |-> "index_document", file_path |-> file_path, before |-> backend,
                    ok |-> r.ok, err |-> r.err, response |-> r.response, log |-> r.log]
        /\ UNCHANGED <<rag_tools, processor, tasks, fs, collection, now, wx, prev>>

IndexDirectory ==
    \E directory_path \in DirArgs, recursive \in BOOLEAN :
      \E files \in Perms(files_found(recursive)),
         fe \in BatchFailureCounts, fail \in {"none", "insert", "flush"} :
        \E r \in {index_directory(directory_path, files, fe, fail)} :
        /\ Len(r.backend.records) <= MaxRecords
        /\ backend' = r.backend
        /\ last' = [op |-> "index_directory", directory_path |-> directory_path,
                    files |-> files, before |-> backend,
                    ok |-> r.ok, err |-> r.err, response |-> r.response, log |-> r.log]
        /\ UNCHANGED <<rag_tools, processor, tasks, fs, collection, now, wx, prev>>

Query ==
    \E sfail \in {"none", "search"} :
      \E os \in IF sfail = "none" THEN Rankings ELSE {<<<<>>, <<>>>>},
         q \in {"t1"}, top_k \in TopKArgs, include_sources \in BOOLEAN,
         fe \in FailureCounts, fg \in BatchFailureCounts :
        \E r \in {query(q, top_k, include_sources, fe, os[1], os[2], sfail, fg)} :
        /\ last' = [op |-> "query", query |-> q, include_sources |-> include_sources,
                    before |-> backend, ok |-> r.ok, err |-> r.err,
                    response |-> r.response, searched |-> r.searched,
                    results |-> r.results, log |-> r.log]
        /\ UNCHANGED <<rag_tools, processor, tasks, fs, collection, backend, now, wx, prev>>

ToolsSearch ==
    \E sfail \in {"none", "search"} :
      \E os \in IF sfail = "none" THEN Rankings ELSE {<<<<>>, <<>>>>},
         q \in {"t1"}, top_k \in TopKArgs, fe \in FailureCounts :
        \E r \in {tools_search(q, top_k, fe, os[1], os[2], sfail)} :
        /\ last' = [op |-> "search_tool", query |-> q, before |-> backend,
                    ok |-> r.ok, err |-> r.err, response |-> r.response, log |-> r.log]
        /\ UNCHANGED <<rag_tools, processor, tasks, fs, collection, backend, now, wx, prev>>

NextIndex == IndexDocument \/ IndexDirectory

SpecIndex == InitIndex /\ [][NextIndex]_vars

NextTools == IndexDocument \/ Query \/ ToolsSearch

SpecTools == InitTools /\ [][NextTools]_vars

(***************************************************************************)
(* Concurrent searches: asyncio.gather over rag_tools.search(q) for the    *)
(* queries q.  Every coroutine keeps its query, its query_embedding and    *)
(* its search results in its own frame (tasks[i]); the coroutines advance  *)
(* one service call at a time and in any order.                            *)
(***************************************************************************)
MaxTasks == 2   \* coroutines handed to one gather

\* the query lists of the callers: distinct texts
QueryLists ==
    { qs \in UNION {[1..n -> Texts \cup {"t3"}] : n \in 1..MaxTasks} :
        \A i, j \in DOMAIN qs : i # j => qs[i] # qs[j] }

\* the collections the searches run against: chunks whose text is one of the
\* query texts, stored with the provider's vector for it
StoredTexts(texts) ==
    Rows([i \in 1..Len(texts) |-> generate_chunk_id(SamplePath, i - 1)], texts,
         [i \in 1..Len(texts) |-> Vec(texts[i])],
         [i \in 1..Len(texts) |-> SamplePath], [i \in 1..Len(texts) |-> 0])

\* the backend's score of a stored vector for a query vector: the vector of
\* the same text scores highest
Similarity(query_vector, vector) == IF query_vector = vector THEN 9 ELSE 5

\* collection.search(data=[query_vector]): the ranking of the stored records
\* for that vector, best first, as <<order, scores>>
similarity_ranking(query_vector) ==
    LET n == Len(backend.records)
        sc == [i \in 1..n |-> Similarity(query_vector, backend.records[i].vector)]
    IN  << CHOOSE o \in Perms(1..n) :
              \A i, j \in 1..n :
                  i < j => \/ sc[o[i]] > sc[o[j]]
                           \/ (sc[o[i]] = sc[o[j]] /\ o[i] < o[j]),
           sc >>

\* a coroutine of RAGTools.search as created: nothing run yet
NewTask(q) ==
    [embedded_at |-> 0, err |-> "none", pc |-> "created", query |-> q,
     query_embedding |-> None, result |-> None, returned_at |-> 0]

\* steps the coroutines of the gather have taken
Steps == Cardinality({i \in DOMAIN tasks : tasks[i].embedded_at > 0})
            + Cardinality({i \in DOMAIN tasks : tasks[i].returned_at > 0})

\* the embedding of the most recently created coroutine that has one
shared_embedding(i) ==
    tasks[CHOOSE j \in DOMAIN tasks :
            /\ tasks[j].query_embedding # None
            /\ \A k \in DOMAIN tasks : tasks[k].query_embedding # None => k <= j
         ].query_embedding[1]

\* the local variable query_embedding of coroutine i
own_embedding(i) == tasks[i].query_embedding[1]

\* RAGTools.search up to the embedding: query_embedding = generate_embedding(query)
task_embed(i, fe) ==
    LET e == generate_embedding(tasks[i].query, fe) IN
    [e EXCEPT !.value = IF e.ok THEN <<e.value>> ELSE None]

\* RAGTools.search from the embedding on: milvus.search and the response
task_search(i, sfail) ==
    LET os == similarity_ranking(own_embedding(i))
        s == search(own_embedding(i), None, None, os[1], os[2], sfail)
    IN  IF ~s.ok
        THEN [ok |-> FALSE, err |-> s.err, response |-> None, log |-> s.log]
        ELSE [ok |-> TRUE, err |-> "none",
              response |-> <<[query |-> tasks[i].query, results |-> s.results,
                              count |-> Len(s.results)]>>,
              log |-> s.log]

InitGather ==
    /\ fs = [n \in FileNames |-> [kind |-> "absent", n |-> 0]]
    /\ collection = "Collection"
    /\ now = 0
    /\ wx = WxReady
    /\ \E texts \in {<<>>, <<"t1">>, <<"t2">>, <<"t1", "t2">>, <<"t2", "t1">>} :
         backend = [ReadyBackend EXCEPT !.records = StoredTexts(texts)]
    /\ last = NoLast
    /\ prev = NoLast
    /\ processor = DefaultProcessor
    /\ tasks = <<>>
    /\ rag_tools = "RAGTools"

\* asyncio.gather: the coroutines are created, in the callers' order
Gather ==
    /\ tasks = <<>> \/ last.op = "gather"
    /\ \E qs \in QueryLists :
        /\ tasks' = [i \in 1..Len(qs) |-> NewTask(qs[i])]
        /\ last' = [op |-> "create_tasks", queries |-> qs, ok |-> TRUE, err |-> "none",
                    log |-> <<>>]
    /\ UNCHANGED <<rag_tools, processor, fs, collection, backend, now, wx, prev>>

\* coroutine i runs its generate_embedding call
TaskEmbed(i) ==
    /\ tasks[i].pc = "created"
    /\ \E fe \in FailureCounts :
        \E e \in {task_embed(i, fe)} :
        /\ tasks' = [tasks EXCEPT ![i] =
                        [@ EXCEPT !.pc = IF e.ok THEN "embedded" ELSE "raised",
                                  !.query_embedding = e.value, !.err = e.err,
                                  !.embedded_at = Steps + 1]]
        /\ last' = [op |-> "task_embed", task |-> i, ok |-> e.ok, err |-> e.err,
                    log |-> e.log]
    /\ UNCHANGED <<rag_tools, processor, fs, collection, backend, now, wx, prev>>

\* coroutine i runs its milvus.search call and returns
TaskSearch(i) ==
    /\ tasks[i].pc = "embedded"
    /\ \E sfail \in {"none", "search"} :
        \E r \in {task_search(i, sfail)} :
        /\ tasks' = [tasks EXCEPT ![i] =
                        [@ EXCEPT !.pc = IF r.ok THEN "done" ELSE "raised",
                                  !.result = r.response, !.err = r.err,
                                  !.returned_at = Steps + 1]]
        /\ last' = [op |-> "task_search", task |-> i, ok |-> r.ok, err |-> r.err,
                    log |-> r.log]
    /\ UNCHANGED <<rag_tools, processor, fs, collection, backend, now, wx, prev>>

\* the gather completes: the results in the order of the coroutines, or the
\* exception of a coroutine that raised
GatherReturn ==
    /\ tasks # <<>>
    /\ last.op # "gather"
    /\ \A i \in DOMAIN tasks : tasks[i].pc \in {"done", "raised"}
    /\ \/ /\ \A i \in DOMAIN tasks : tasks[i].pc = "done"
          /\ last' = [op |-> "gather", queries |-> Column(tasks, "query"), ok |-> TRUE,
                      err |-> "none",
                      results |-> [i \in DOMAIN tasks |-> tasks[i].result[1]],
                      log |-> <<>>]
       \/ \E i \in DOMAIN tasks :
          /\ tasks[i].pc = "raised"
          /\ last' = [op |-> "gather", queries |-> Column(tasks, "query"), ok |-> FALSE,
                      err |-> tasks[i].err, results |-> <<>>, log |-> <<>>]
    /\ UNCHANGED <<rag_tools, processor, tasks, fs, collection, backend, now, wx, prev>>

NextGather ==
    \/ Gather
    \/ \E i \in DOMAIN tasks : TaskEmbed(i)
    \/ \E i \in DOMAIN tasks : TaskSearch(i)
    \/ GatherReturn

SpecGather == InitGather /\ [][NextGather]_vars

(***************************************************************************)
(* The MCP server.  The module-level rag_tools is None until the lifespan  *)
(* constructs RAGTools; every endpoint tests it and calls its RAGTools     *)
(* method inside one try / except Exception.                               *)
(***************************************************************************)
http_response_always_200(r) ==
    [status_code |-> 200,
     content |-> IF r.ok THEN <<r.response>> ELSE <<[status |-> "error"]>>,
     detail |-> r.err]

\* the try / except of an endpoint: the tool's result is the content of the
\* response; an exception becomes HTTPException(500, detail=str(e))
http_response(r) ==
    IF r.ok THEN [status_code |-> 200, content |-> <<r.response>>, detail |-> "none"]
    ELSE [status_code |-> 500, content |-> None, detail |-> r.err]

\* the try / except of GET /health: HealthResponse(status, components), or
\* HTTPException(503, detail=str(e)) for an exception
health_response(r) ==
    IF r.ok
    THEN [status_code |-> 200,
          content |-> <<[status |-> IF r.response.watsonx /\ r.response.milvus
                                    THEN "healthy" ELSE "degraded",
                         components |-> r.response]>>,
          detail |-> "none"]
    ELSE [status_code |-> 503, content |-> None, detail |-> r.err]

\* `if not rag_tools: raise HTTPException(503, detail="RAG tools not
\* initialized")`, the first statement inside every endpoint's try: the
\* exception as the except clause of the same try receives it (err is
\* str(e), which starlette renders as "<status_code>: <detail>")
not_initialized ==
    [ok |-> FALSE, err |-> "503: RAG tools not initialized", response |-> NoResponse,
     searched |-> FALSE, results |-> <<>>, backend |-> backend, log |-> <<>>]

\* the result a tool returned or the exception raised in the try block, as
\* the endpoint sees it
ToolOutcome(r) == [ok |-> r.ok, err |-> r.err, response |-> r.response]

\* RAGTools.get_stats
tools_get_stats(fail) ==
    LET s == get_stats(fail) IN
    IF ~s.ok
    THEN [ok |-> FALSE, err |-> s.err, response |-> NoResponse, backend |-> backend,
          log |-> s.log]
    ELSE [ok |-> TRUE, err |-> "none",
          response |-> [status |-> "success", statistics |-> s.stats],
          backend |-> backend, log |-> s.log]

\* RAGTools.clear_knowledge_base
clear_knowledge_base(fail) ==
    LET c == clear_collection(fail) IN
    IF ~c.ok
    THEN [ok |-> FALSE, err |-> c.err, response |-> NoResponse, backend |-> c.backend,
          log |-> c.log]
    ELSE [ok |-> TRUE, err |-> "none",
          response |-> [status |-> "success",
                        message |-> "Knowledge base cleared successfully"],
          backend |-> c.backend, log |-> c.log]

\* RAGTools.health_check
tools_health_check(f, fail) ==
    LET w == watsonx_health_check(f)
        m == milvus_health_check(fail)
    IN [ok |-> TRUE, err |-> "none",
        response |-> [watsonx |-> w.value, milvus |-> m.value],
        backend |-> backend, log |-> w.log \o m.log]

\* a.txt is absent, unreadable, empty or holds chunks; b.PDF is unreadable
ServerFs ==
    { f \in FsStates :
        /\ f[[dir |-> "sub", stem |-> "b", ext |-> ".PDF"]].kind = "corrupt"
        /\ f[[dir |-> "", stem |-> "e", ext |-> ".xyz"]].kind = "ok" }

\* the module as imported: rag_tools = None, no client constructed; the
\* Milvus server holds the empty collection of an earlier run
InitServer ==
    /\ fs \in ServerFs
    /\ collection = "None"
    /\ backend = [ReadyBackend EXCEPT !.loaded = FALSE]
    /\ now = 0
    /\ wx = WxReady
    /\ last = NoLast
    /\ prev = NoLast
    /\ processor = NoProcessor
    /\ tasks = <<>>
    /\ rag_tools = "None"

\* lifespan, startup half: rag_tools = RAGTools(settings), which constructs
\* the Watsonx client, the Milvus client and the document processor
Lifespan ==
    /\ rag_tools = "None"
    /\ \E r \in {milvus_init("none")} :
        /\ rag_tools' = "RAGTools"
        /\ collection' = r.handle
        /\ backend' = r.backend
        /\ processor' = document_processor_init(
                            [rag_chunk_size |-> rag_chunk_size,
                             rag_chunk_overlap |-> rag_chunk_overlap]).processor
        /\ last' = [op |-> "lifespan", ok |-> r.ok, err |-> r.err, log |-> r.log]
    /\ UNCHANGED <<tasks, fs, now, wx, prev>>

\* POST /tools/rag_query
RagQuery ==
    \E sfail \in {"none", "search"} :
      \E os \in IF sfail = "none" THEN Rankings ELSE {<<<<>>, <<>>>>},
         q \in {"t1"}, top_k \in TopKArgs, include_sources \in BOOLEAN,
         fe \in FailureCounts, fg \in BatchFailureCounts :
        \E r \in {IF rag_tools = "None" THEN not_initialized
                  ELSE query(q, top_k, include_sources, fe, os[1], os[2], sfail, fg)} :
        /\ last' = [op |-> "rag_query", tool |-> ToolOutcome(r),
                    initialized |-> (rag_tools # "None"),
                    searched |-> r.searched, results |-> r.results,
                    http |-> http_response(r),
                    ok |-> r.ok, err |-> r.err, log |-> r.log]
        /\ UNCHANGED <<rag_tools, processor, tasks, fs, collection, backend, now, wx, prev>>

\* POST /tools/rag_index
RagIndexDocument ==
    \E file_path \in PathArgs, fe \in BatchFailureCounts,
       fail \in {"none", "insert", "flush"} :
        \E r \in {IF rag_tools = "None" THEN not_initialized
                  ELSE index_document(file_path, fe, fail)} :
        /\ Len(r.backend.records) <= MaxRecords
        /\ backend' = r.backend
        /\ last' = [op |-> "rag_index", tool |-> ToolOutcome(r),
                    initialized |-> (rag_tools # "None"),
                    searched |-> FALSE, results |-> <<>>,
                    http |-> http_response(r),
                    ok |-> r.ok, err |-> r.err, log |-> r.log]
        /\ UNCHANGED <<rag_tools, processor, tasks, fs, collection, now, wx, prev>>

\* POST /tools/rag_index_directory
RagIndexDirectory ==
    \E directory_path \in DirArgs, recursive \in BOOLEAN :
      \E files \in Perms(files_found(recursive)),
         fe \in BatchFailureCounts, fail \in {"none", "insert", "flush"} :
        \E r \in {IF rag_tools = "None" THEN not_initialized
                  ELSE index_directory(directory_path, files, fe, fail)} :
        /\ Len(r.backend.records) <= MaxRecords
        /\ backend' = r.backend
        /\ last' = [op |-> "rag_index_directory", tool |-> ToolOutcome(r),
                    initialized |-> (rag_tools # "None"),
                    searched |-> FALSE, results |-> <<>>,
                    http |-> http_response(r),
                    ok |-> r.ok, err |-> r.err, log |-> r.log]
        /\ UNCHANGED <<rag_tools, processor, tasks, fs, collection, now, wx, prev>>

\* POST /tools/rag_search
RagSearch ==
    \E sfail \in {"none", "search"} :
      \E os \in IF sfail = "none" THEN Rankings ELSE {<<<<>>, <<>>>>},
         q \in {"t1"}, top_k \in TopKArgs, fe \in FailureCounts :
        \E r \in {IF rag_tools = "None" THEN not_initialized
                  ELSE tools_search(q, top_k, fe, os[1], os[2], sfail)} :
        /\ last' = [op |-> "rag_search", tool |-> ToolOutcome(r),
                    initialized |-> (rag_tools # "None"),
                    searched |-> r.ok, results |-> IF r.ok THEN r.response.results ELSE <<>>,
                    http |-> http_response(r),
                    ok |-> r.ok, err |-> r.err, log |-> r.log]
        /\ UNCHANGED <<rag_tools, processor, tasks, fs, collection, backend, now, wx, prev>>

\* GET /tools/rag_stats
RagStats ==
    \E fail \in {"none", "num_entities"} :
        \E r \in {IF rag_tools = "None" THEN not_initialized ELSE tools_get_stats(fail)} :
        /\ last' = [op |-> "rag_stats", tool |-> ToolOutcome(r),
                    initialized |-> (rag_tools # "None"),
                    searched |-> FALSE, results |-> <<>>,
                    http |-> http_response(r),
                    ok |-> r.ok, err |-> r.err, log |-> r.log]
        /\ UNCHANGED <<rag_tools, processor, tasks, fs, collection, backend, now, wx, prev>>

\* DELETE /tools/rag_clear
RagClear ==
    \E fail \in {"none", "drop", "create", "create_index", "load"} :
        \E r \in {IF rag_tools = "None" THEN not_initialized
                  ELSE clear_knowledge_base(fail)} :
        /\ backend' = r.backend
        /\ last' = [op |-> "rag_clear", tool |-> ToolOutcome(r),
                    initialized |-> (rag_tools # "None"),
                    searched |-> FALSE, results |-> <<>>,
                    http |-> http_response(r),
                    ok |-> r.ok, err |-> r.err, log |-> r.log]
        /\ UNCHANGED <<rag_tools, processor, tasks, fs, collection, now, wx, prev>>

\* GET /health
HealthCheck ==
    \E f \in FailureCounts, fail \in {"none", "num_entities"} :
        \E r \in {IF rag_tools = "None" THEN not_initialized
                  ELSE tools_health_check(f, fail)} :
        /\ last' = [op |-> "health", tool |-> ToolOutcome(r),
                    initialized |-> (rag_tools # "None"),
                    searched |-> FALSE, results |-> <<>>,
                    http |-> health_response(r),
                    ok |-> r.ok, err |-> r.err, log |-> r.log]
        /\ UNCHANGED <<rag_tools, processor, tasks, fs, collection, backend, now, wx, prev>>

NextServer ==
    \/ Lifespan
    \/ RagQuery
    \/ RagIndexDocument
    \/ RagIndexDirectory
    \/ RagSearch
    \/ RagStats
    \/ RagClear
    \/ HealthCheck

SpecServer == InitServer /\ [][NextServer]_vars

(***************************************************************************)
(* The A2A agent.  A message is a dict: a function from the keys it holds  *)
(* to their values.  The MCP server behind the agent's tool client is the  *)
(* rag_query endpoint above.                                               *)
(***************************************************************************)
\* Settings.a2a_agent_id
a2a_agent_id == "rag-agent"

\* dict.get(key, default)
Get(d, key, default) == IF key \in DOMAIN d THEN d[key] ELSE default

\* the messages a peer sends: complete ones and ones that lack a key; the
\* content is a dict with or without "query", or not a dict at all
A2AMessages ==
    LET Complete ==
            [agent_id : {"peer"}, message_type : {"query", "index"},
             content : {[kind |-> "dict", query |-> <<"t1">>],
                        [kind |-> "dict", query |-> None], [kind |-> "str"]},
             correlation_id : {"c1", "None"}]
        Keys == {"agent_id", "message_type", "content", "correlation_id"}
    IN  { [k \in K |-> m[k]] : m \in Complete, K \in {Keys} \cup {Keys \ {k} : k \in Keys} }

\* the POST of MCPToolClient.rag_query got no response: httpx raised
\* ReadTimeout after the client's 30 s timeout
ReadTimeoutReply == [transport_error |-> "ReadTimeout"]

\* MCPToolClient.rag_query: the endpoint's JSON, the exception
\* raise_for_status raises for a 4xx / 5xx response, or the exception of
\* the transport
mcp_rag_query(http) ==
    IF "transport_error" \in DOMAIN http
    THEN [ok |-> FALSE, err |-> http.transport_error, value |-> None]
    ELSE IF http.status_code = 200
    THEN [ok |-> TRUE, err |-> "none", value |-> http.content]
    ELSE [ok |-> FALSE, err |-> "HTTPStatusError", value |-> None]

\* str(e): the message of the exception.  The timeout exceptions of the
\* asynchronous httpx client carry an empty message; every other exception
\* of the model has a message, written as its name
str(e) == IF e = "ReadTimeout" THEN "" ELSE e

\* whether a text (a string, or the record standing for a generated text) is
\* the empty string
Empty(text) == ToString(text) = ToString("")

\* Python truth of an Optional[str]: None and "" are false
Truthy(opt) == opt # None /\ ~Empty(opt[1])

\* initial_state of process_query
initial_state(q) ==
    [query |-> q, messages |-> <<>>, context |-> None, sources |-> None,
     response |-> None, metadata |-> None, error |-> None, next_action |-> None]

\* A2ARAGAgent._process_input (nothing in its try block raises for a state
\* built by process_query)
_process_input(state) ==
    [state EXCEPT !.messages = Append(@, [role |-> "user", content |-> <<state.query>>]),
                  !.metadata = <<[agent_id |-> a2a_agent_id, timestamp |-> now]>>,
                  !.next_action = <<"retrieve">>]

\* A2ARAGAgent._retrieve_context; `rr` is what mcp_client.rag_query
\* returned or raised
_retrieve_context(state, rr) ==
    IF rr.ok
    THEN [state EXCEPT !.context = <<Get(rr.value[1], "context", <<>>)>>,
                       !.sources = <<Get(rr.value[1], "sources", <<>>)>>,
                       !.response = <<Get(rr.value[1], "answer", "")>>,
                       !.next_action = <<"generate">>]
    ELSE [state EXCEPT !.error = <<str(rr.err)>>, !.next_action = <<"error">>]

\* A2ARAGAgent._generate_response
_generate_response(state) ==
    [state EXCEPT
        !.messages = Append(@, [role |-> "assistant",
                                content |-> IF state.response = None \/ Empty(state.response[1])
                                            THEN <<"">> ELSE state.response]),
        !.metadata = IF @ = None THEN @
                     ELSE <<[agent_id |-> @[1].agent_id, timestamp |-> @[1].timestamp,
                             response_generated |-> TRUE,
                             num_sources |-> IF state.sources = None THEN 0
                                             ELSE Len(state.sources[1])]>>]

\* the text "I encountered an error while processing your request: <error>"
error_reply(error) == [error_reply |-> error]

\* A2ARAGAgent._handle_error; state.get("error", "Unknown error") finds the
\* key, which process_query put there
_handle_error(state) ==
    LET response == <<error_reply(IF state.error = None THEN "None" ELSE state.error[1])>>
    IN [state EXCEPT !.response = response,
                     !.messages = Append(@, [role |-> "assistant", content |-> response])]

\* _route_after_input / _route_after_retrieval
_route_after_input(state) ==
    IF Truthy(state.next_action) THEN state.next_action[1] ELSE "error"

_route_after_retrieval(state) ==
    IF Truthy(state.next_action) THEN state.next_action[1] ELSE "error"

\* graph.ainvoke over the graph of _build_graph: the final state and the
\* nodes visited, in order
ainvoke(state, rr) ==
    LET s1 == _process_input(state) IN
    IF _route_after_input(s1) = "retrieve"
    THEN LET s2 == _retrieve_context(s1, rr) IN
         IF _route_after_retrieval(s2) = "generate"
         THEN [state |-> _generate_response(s2),
               visited |-> <<"process_input", "retrieve_context", "generate_response">>]
         ELSE [state |-> _handle_error(s2),
               visited |-> <<"process_input", "retrieve_context", "handle_error">>]
    ELSE [state |-> _handle_error(s1), visited |-> <<"process_input", "handle_error">>]

\* A2ARAGAgent.process_query: the response dict built from the final state;
\* "error" is a key of it only when final_state.get("error") is true
process_query(q, http) ==
    LET final_state == ainvoke(initial_state(q), mcp_rag_query(http)).state
        response == [agent_id |-> a2a_agent_id, query |-> q,
                     response |-> final_state.response,
                     context |-> final_state.context,
                     sources |-> final_state.sources,
                     metadata |-> final_state.metadata]
    IN IF Truthy(final_state.error)
       THEN [k \in DOMAIN response \cup {"error"} |->
                IF k = "error" THEN final_state.error[1] ELSE response[k]]
       ELSE response

\* the except branch of handle_a2a_message
error_message(message, e) ==
    [agent_id |-> a2a_agent_id, message_type |-> "error", content |-> [error |-> e],
     correlation_id |-> Get(message, "correlation_id", "None")]

\* the query text handle_a2a_message passes on: content.get("query", "")
QueryOf(message) ==
    LET content == Get(message, "content", [kind |-> "dict", query |-> None]) IN
    IF content.kind = "dict" /\ content.query # None THEN content.query[1] ELSE ""

\* the try block of handle_a2a_message: the response message, or the
\* exception raised on the way; `http` is the server's answer to the
\* rag_query call for QueryOf(message)
try_handle(message, http) ==
    IF "agent_id" \notin DOMAIN message
    THEN [ok |-> FALSE, err |-> "KeyError", value |-> None]
    ELSE LET message_type == Get(message, "message_type", "query")
             content == Get(message, "content", [kind |-> "dict", query |-> None])
         IN  IF message_type = "query"
             THEN IF content.kind # "dict"
                  THEN [ok |-> FALSE, err |-> "AttributeError", value |-> None]
                  ELSE [ok |-> TRUE, err |-> "none",
                        value |-> <<[agent_id |-> a2a_agent_id,
                                     message_type |-> "response",
                                     content |-> process_query(QueryOf(message), http),
                                     correlation_id |->
                                        Get(message, "correlation_id", "None")]>>]
             ELSE [ok |-> FALSE, err |-> "ValueError", value |-> None]

handle_a2a_message_reraising(message, http) ==
    LET t == try_handle(message, http) IN
    IF t.ok THEN [raised |-> FALSE, err |-> "none", message |-> t.value]
    ELSE [raised |-> TRUE, err |-> t.err, message |-> None]

\* A2ARAGAgent.handle_a2a_message: what the try block returns, or the error
\* message built from the exception it raised
handle_a2a_message(message, http) ==
    LET t == try_handle(message, http) IN
    IF t.ok THEN [raised |-> FALSE, err |-> "none", message |-> t.value]
    ELSE [raised |-> FALSE, err |-> "none", message |-> <<error_message(message, t.err)>>]

\* whether handle_a2a_message gets as far as calling process_query
CallsProcessQuery(message) ==
    /\ "agent_id" \in DOMAIN message
    /\ Get(message, "message_type", "query") = "query"
    /\ Get(message, "content", [kind |-> "dict", query |-> None]).kind = "dict"

InitAgent ==
    /\ fs = [n \in FileNames |-> [kind |-> "absent", n |-> 0]]
    /\ collection = "Collection"
    /\ now = 0
    /\ wx = WxReady
    /\ \E texts \in {<<>>, <<"t1">>, <<"t2">>, <<"t1", "t2">>, <<"t2", "t1">>} :
         backend = [ReadyBackend EXCEPT !.records = StoredTexts(texts)]
    /\ last = NoLast
    /\ prev = NoLast
    /\ processor = DefaultProcessor
    /\ tasks = <<>>
    /\ rag_tools = "RAGTools"

\* agent.handle_a2a_message(message), the call of the rag_query tool with
\* top_k = settings.rag_top_k and include_sources = True included
HandleA2AMessage ==
    \E message \in A2AMessages, sfail \in {"none", "search"},
       fe \in {0, 9} \cap (0..MaxFailures), fg \in {0, 3} \cap (0..MaxFailures) :
      \E os \in {similarity_ranking(Vec(QueryOf(message)))} :
        \E r \in {query(QueryOf(message), <<rag_top_k>>, TRUE, fe, os[1], os[2], sfail, fg)} :
        \E h \in {handle_a2a_message(message, http_response(r))} :
        /\ last' = [op |-> "handle_a2a_message", message |-> message,
                    called |-> CallsProcessQuery(message), raised |-> h.raised,
                    reply |-> h.message, tool |-> ToolOutcome(r),
                    ok |-> ~h.raised, err |-> h.err,
                    log |-> IF CallsProcessQuery(message) THEN r.log ELSE <<>>]
        /\ UNCHANGED <<rag_tools, processor, tasks, fs, collection, backend, now, wx, prev>>

\* agent.process_query(query), the call of the rag_query tool included; the
\* POST is answered by the server or times out
ProcessQuery ==
    \E q \in Texts, sfail \in {"none", "search"}, timeout \in BOOLEAN,
       fe \in {0, 9} \cap (0..MaxFailures), fg \in {0, 3} \cap (0..MaxFailures) :
      \E os \in {similarity_ranking(Vec(q))} :
        \E r \in {query(q, <<rag_top_k>>, TRUE, fe, os[1], os[2], sfail, fg)} :
        \E http \in {IF timeout THEN ReadTimeoutReply ELSE http_response(r)} :
        \E g \in {ainvoke(initial_state(q), mcp_rag_query(http))} :
        /\ last' = [op |-> "process_query", query |-> q, http |-> http,
                    tool |-> ToolOutcome(r), visited |-> g.visited,
                    final_state |-> g.state, result |-> process_query(q, http),
                    ok |-> TRUE, err |-> "none", log |-> r.log]
        /\ UNCHANGED <<rag_tools, processor, tasks, fs, collection, backend, now, wx, prev>>

NextAgent == HandleA2AMessage \/ ProcessQuery

SpecAgent == InitAgent /\ [][NextAgent]_vars

(***************************************************************************)
(* ShakespeareAgentExecutor.  A request context is its message (None, or   *)
(* the text of the user's input as a sequence of characters) and its       *)
(* current task (None or a task).  The events the executor enqueues are    *)
(* recorded in order; `trace` is the same sequence followed by the         *)
(* exception the call raised, if it raised.                                *)
(***************************************************************************)
\* the texts a request carries
UserInputs == {<<>>, <<" ">>, <<" ", "CR">>, <<"a">>, <<" ", "a">>}

RequestContexts ==
    [message : {None} \cup {<<t>> : t \in UserInputs}, current_task : {None, <<"task-0">>}]

\* RequestContext.get_user_input(): the text of the message, "" without one
get_user_input(context) == IF context.message = None THEN <<>> ELSE context.message[1]

\* ShakespeareAgentExecutor._validate_request: True when validation fails
_validate_request(context) ==
    LET user_input == get_user_input(context)
    IN  user_input = <<>> \/ strip(user_input) = <<>>

\* the events of the TaskUpdater and of new_task
task_event(id) == [kind |-> "task", id |-> id]

status_event(id, state, final) == [kind |-> "status", id |-> id, state |-> state, final |-> final]

artifact_event(id, text) ==
    [kind |-> "artifact", id |-> id, name |-> "shakespeare_answer", text |-> text]

raise_event(error) == [kind |-> "raise", error |-> error]

\* what execute leaves: the events enqueued, the exception raised ("none"
\* when it returned) and whether agent.process_query was called
executed(events, error, called) ==
    [events |-> events, raised |-> error # "none", err |-> error, called |-> called,
     trace |-> IF error = "none" THEN events ELSE Append(events, raise_event(error))]

finish_without_error_check(id, result) ==
    IF result.response = None \/ Empty(result.response[1])
    THEN <<status_event(id, "input_required", TRUE)>>
    ELSE <<artifact_event(id, result.response[1]), status_event(id, "completed", TRUE)>>

\* the try block of execute after the "working" status, for the result
\* process_query returned
finish(id, result) ==
    IF "error" \in DOMAIN result /\ ~Empty(result.error)
    THEN <<status_event(id, "input_required", TRUE)>>
    ELSE IF result.response = None \/ Empty(result.response[1])
    THEN <<status_event(id, "input_required", TRUE)>>
    ELSE <<artifact_event(id, result.response[1]), status_event(id, "completed", TRUE)>>

\* ShakespeareAgentExecutor.execute; `agent_raises` says that
\* agent.process_query raised instead of returning `result`
execute_without_validation(context, result, agent_raises) ==
    LET id == IF context.current_task = None THEN "task-1" ELSE context.current_task[1]
        created == IF context.current_task = None THEN <<task_event(id)>> ELSE <<>>
        working == created \o <<status_event(id, "working", FALSE)>>
    IN  IF agent_raises
        THEN executed(working \o <<status_event(id, "input_required", TRUE)>>,
                      "ServerError(InternalError)", TRUE)
        ELSE executed(working \o finish(id, result), "none", TRUE)

execute(context, result, agent_raises) ==
    IF _validate_request(context)
    THEN executed(<<>>, "ServerError(InvalidParamsError)", FALSE)
    ELSE IF get_user_input(context) = <<>>
    THEN executed(<<>>, "ServerError(InvalidParamsError)", FALSE)
    ELSE
    LET id == IF context.current_task = None THEN "task-1" ELSE context.current_task[1]
        created == IF context.current_task = None THEN <<task_event(id)>> ELSE <<>>
        working == created \o <<status_event(id, "working", FALSE)>>
    IN  IF agent_raises
        THEN executed(working \o <<status_event(id, "input_required", TRUE)>>,
                      "ServerError(InternalError)", TRUE)
        ELSE executed(working \o finish(id, result), "none", TRUE)

\* ShakespeareAgentExecutor.cancel
cancel(context) == executed(<<>>, "ServerError(UnsupportedOperationError)", FALSE)

\* the server's reply to a query for which the LLM generated no text
EmptyAnswerReply ==
    [status_code |-> 200,
     content |-> <<[answer |-> "", context |-> <<>>, sources |-> <<>>]>>,
     detail |-> "none"]

\* the knowledge base holds nothing, or one chunk whose text is the query "a"
InitExecutor ==
    /\ fs = [n \in FileNames |-> [kind |-> "absent", n |-> 0]]
    /\ collection = "Collection"
    /\ now = 0
    /\ wx = WxReady
    /\ \E texts \in {<<>>, << <<"a">> >>} :
         backend = [ReadyBackend EXCEPT !.records = StoredTexts(texts)]
    /\ last = NoLast
    /\ prev = NoLast
    /\ processor = DefaultProcessor
    /\ tasks = <<>>
    /\ rag_tools = "RAGTools"

\* executor.execute(context, event_queue), the agent's run and its call of
\* the rag_query tool included
Execute ==
    \E context \in RequestContexts, agent_raises \in BOOLEAN,
       reply \in {"server", "timeout", "empty"}, sfail \in {"none", "search"},
       fe \in {0, 9} \cap (0..MaxFailures), fg \in {0, 3} \cap (0..MaxFailures) :
      \E q \in {get_user_input(context)} :
      \E os \in {similarity_ranking(Vec(q))} :
        \E r \in {query(q, <<rag_top_k>>, TRUE, fe, os[1], os[2], sfail, fg)} :
        \E http \in {IF reply = "timeout" THEN ReadTimeoutReply
                     ELSE IF reply = "empty" THEN EmptyAnswerReply
                     ELSE http_response(r)} :
        \E x \in {execute(context, process_query(q, http), agent_raises)} :
        /\ last' = [op |-> "execute", context |-> context,
                    agent_raises |-> agent_raises,
                    result |-> process_query(q, http),
                    events |-> x.events, trace |-> x.trace, called |-> x.called,
                    raised |-> x.raised, ok |-> ~x.raised, err |-> x.err,
                    log |-> IF x.called THEN r.log ELSE <<>>]
        /\ UNCHANGED <<rag_tools, processor, tasks, fs, collection, backend, now, wx, prev>>

\* executor.cancel(context, event_queue)
Cancel ==
    \E context \in RequestContexts :
        \E x \in {cancel(context)} :
        /\ last' = [op |-> "cancel", context |-> context, agent_raises |-> FALSE,
                    result |-> None,
                    events |-> x.events, trace |-> x.trace, called |-> x.called,
                    raised |-> x.raised, ok |-> ~x.raised, err |-> x.err, log |-> <<>>]
        /\ UNCHANGED <<rag_tools, processor, tasks, fs, collection, backend, now, wx, prev>>

NextExecutor == Execute \/ Cancel

SpecExecutor == InitExecutor /\ [][NextExecutor]_vars

(***************************************************************************)
(* The deployment data loader (deployment/local/load_data.py).  Every run  *)
(* is a process of its own with its own clients; runs interleave between   *)
(* their calls to Milvus.  A run is at "check" (clients built, about to    *)
(* read the statistics), at "load" (about to process and insert), or has   *)
(* ended: "skipped", "loaded" or "exit" (sys.exit(1)).                     *)
(***************************************************************************)
MaxLoaders == 2    \* runs of the loader

max_retries == 30

\* data/reference/complete works of Shakespear.txt
shakespeare_file == [dots |-> 0, dir |-> "", stem |-> "a", ext |-> ".txt"]

\* wait_for_milvus: MilvusClient(settings) is tried until it succeeds or
\* max_retries attempts failed; `f` attempts fail before Milvus is ready
wait_for_milvus(f) ==
    IF f >= max_retries
    THEN [value |-> FALSE, attempts |-> max_retries, sleeps |-> max_retries - 1,
          backend |-> backend]
    ELSE [value |-> TRUE, attempts |-> f + 1, sleeps |-> f,
          backend |-> milvus_init("none").backend]

\* the check of load_shakespeare_data: skip when the collection holds data;
\* a failing get_stats is logged and the load goes on
collection_has_data(fail) ==
    LET s == get_stats(fail) IN s.ok /\ s.stats.num_entities > 0

\* the rest of load_shakespeare_data: process the file, embed, insert, read
\* the statistics; any exception ends the run with sys.exit(1)
load(fe, fail) ==
    IF ~exists(Path(shakespeare_file))
    THEN [ok |-> FALSE, err |-> "SystemExit", backend |-> backend, log |-> <<>>]
    ELSE LET p == process_file(shakespeare_file) IN
         IF ~p.ok
         THEN [ok |-> FALSE, err |-> "SystemExit", backend |-> backend, log |-> p.log]
         ELSE LET r == embed_and_insert(p.chunks, fe, fail, p.log, NoResponse) IN
              IF ~r.ok
              THEN [ok |-> FALSE, err |-> "SystemExit", backend |-> r.backend,
                    log |-> r.log]
              ELSE [ok |-> TRUE, err |-> "none", backend |-> r.backend,
                    log |-> r.log \o <<Ev("num_entities", TRUE)>>]

InitLoader ==
    /\ \E a \in {[kind |-> "absent", n |-> 0]} \cup
                {[kind |-> "ok", n |-> k] : k \in 1..MaxChunks} :
         fs = [n \in FileNames |->
                 IF n = NameOf(shakespeare_file) THEN a ELSE [kind |-> "absent", n |-> 0]]
    /\ collection = "None"
    /\ backend = NoBackend
    /\ now = 0
    /\ wx = WxReady
    /\ last = NoLast
    /\ prev = NoLast
    /\ processor = DefaultProcessor
    /\ tasks = <<>>
    /\ rag_tools = "None"

\* a run starts: wait_for_milvus, then the three clients are constructed
LoaderStart ==
    /\ Len(tasks) < MaxLoaders
    /\ \E f \in {0, 1, max_retries}, fail \in {"none", "connect"} :
        \E w \in {wait_for_milvus(f)} :
        /\ backend' = w.backend
        /\ collection' = IF w.value /\ fail = "none" THEN "Collection" ELSE collection
        /\ tasks' = Append(tasks, [pc |-> IF w.value /\ fail = "none" THEN "check"
                                          ELSE "exit"])
        /\ last' = [op |-> "loader_start", run |-> Len(tasks) + 1, attempts |-> w.attempts,
                    ok |-> (w.value /\ fail = "none"),
                    err |-> IF w.value /\ fail = "none" THEN "none" ELSE "SystemExit",
                    log |-> <<>>]
    /\ UNCHANGED <<rag_tools, processor, fs, now, wx, prev>>

\* run i reads the statistics and decides
LoaderCheck(i) ==
    /\ tasks[i].pc = "check"
    /\ \E fail \in {"none", "num_entities"} :
        \E skip \in {collection_has_data(fail)} :
        /\ tasks' = [tasks EXCEPT ![i].pc = IF skip THEN "skipped" ELSE "load"]
        /\ last' = [op |-> "loader_check", run |-> i, skip |-> skip,
                    entities |-> Len(backend.records), ok |-> TRUE, err |-> "none",
                    log |-> <<Ev("num_entities", fail = "none")>>]
    /\ UNCHANGED <<rag_tools, processor, fs, collection, backend, now, wx, prev>>

\* run i processes the file and inserts its chunks
LoaderLoad(i) ==
    /\ tasks[i].pc = "load"
    /\ \E fe \in BatchFailureCounts, fail \in {"none", "insert", "flush"} :
        \E r \in {load(fe, fail)} :
        /\ Len(r.backend.records) <= MaxRecords
        /\ backend' = r.backend
        /\ tasks' = [tasks EXCEPT ![i].pc = IF r.ok THEN "loaded" ELSE "exit"]
        /\ last' = [op |-> "loader_load", run |-> i, before |-> backend,
                    ok |-> r.ok, err |-> r.err, log |-> r.log]
    /\ UNCHANGED <<rag_tools, processor, fs, collection, now, wx, prev>>

NextLoader ==
    \/ LoaderStart
    \/ \E i \in DOMAIN tasks : LoaderCheck(i)
    \/ \E i \in DOMAIN tasks : LoaderLoad(i)

SpecLoader == InitLoader /\ [][NextLoader]_vars

(***************************************************************************)
(* Properties.                                                             *)
(***************************************************************************)
\* the provider / backend calls of a log, backoff sleeps left out
NoSleep(log) == SelectSeq(log, LAMBDA e : e.call # "sleep")

\* C1: a search with top_k = k and score_threshold = t supplied returns at
\* most k results and every returned result has score >= t.
C1_SearchWithinTopKAndThreshold ==
    (last.op = "search" /\ last.ok) =>
        /\ last.top_k # None => Len(last.results) <= last.top_k[1]
        /\ last.score_threshold # None =>
              \A i \in DOMAIN last.results :
                  last.results[i].score >= last.score_threshold[1]

\* C2: query calls text generation if and only if the search returned at
\* least one result; with zero results it returns, without raising, the
\* fixed answer with empty context and sources.
C2_GenerateIffResults ==
    last.op = "query" =>
        /\ Calls(last.log, "llm.generate_text") > 0
              <=> (last.searched /\ last.results # <<>>)
        /\ (last.searched /\ last.results = <<>>) =>
              /\ last.ok
              /\ last.response = [answer |-> NoInfoAnswer, context |-> <<>>,
                                  sources |-> <<>>]

C2_Witness ==
    /\ last.op = "query"
    /\ last.searched /\ last.results = <<>>
    /\ last.before.records # <<>>
    /\ Calls(last.log, "search") = 1

\* the pipeline stage a logged call belongs to
Stage(op, call) ==
    IF op = "index_document"
    THEN CASE call = "extract" -> 1
           [] call = "split_text" -> 2
           [] call = "embed_documents" -> 3
           [] OTHER -> 4
    ELSE CASE call = "embed_documents" -> 1
           [] call = "search" -> 2
           [] OTHER -> 3

\* C3: within one index_document or query call the stages run in order, a
\* stage starts only after the previous stage returned normally, a failed
\* stage is the last one and its error reaches the caller, and a failed
\* embed leaves the collection unchanged with no insert issued.
C3_StagesInOrder ==
    last.op \in {"index_document", "query"} =>
        LET L == NoSleep(last.log) IN
        /\ \A i \in 1..(Len(L) - 1) :
              /\ Stage(last.op, L[i + 1].call) >= Stage(last.op, L[i].call)
              /\ Stage(last.op, L[i + 1].call) <= Stage(last.op, L[i].call) + 1
              /\ Stage(last.op, L[i + 1].call) > Stage(last.op, L[i].call) => L[i].ok
        /\ L # <<>> => Stage(last.op, L[1].call) = 1
        /\ (L # <<>> /\ ~L[Len(L)].ok) => ~last.ok
        /\ Calls(L, "insert") = 0 => backend = last.before
        /\ (L # <<>> /\ L[Len(L)] = Ev("embed_documents", FALSE)) =>
              Calls(L, "insert") = 0

C3_Witness ==
    /\ last.op = "index_document"
    /\ ~last.ok
    /\ last.log # <<>>
    /\ last.log[Len(last.log)] = Ev("embed_documents", FALSE)
    /\ Calls(last.log, "split_text") = 1

\* C4: right after a successful clear_collection of a ready collection,
\* get_stats reports num_entities = 0 and the collection is ready again with
\* the name, metric and dimension it had before.
C4_ClearThenStats ==
    (last.op = "clear_collection" /\ last.ok /\ last.before.indexed /\ last.before.loaded) =>
        /\ get_stats("none").ok
        /\ get_stats("none").stats =
              [collection_name |-> milvus_collection_name, num_entities |-> 0,
               metric_type |-> last.before.metric, dimension |-> last.before.dim]
        /\ collection # "None"
        /\ backend = [last.before EXCEPT !.records = <<>>]

C4_Witness ==
    /\ last.op = "clear_collection" /\ last.ok
    /\ last.before.records # <<>>

\* C5: index_directory on a directory skips a file whose extraction,
\* embedding or insert fails: the call does not raise and chunks_indexed
\* counts the chunks that were stored.
C5_DirectoryFailureSkipsFileOnly ==
    (last.op = "index_directory" /\ last.directory_path = "root") =>
        /\ last.ok
        /\ last.response.chunks_indexed
              = Len(backend.records) - Len(last.before.records)

\* the document of the last index_document call yields zero chunks
ZeroChunks == /\ last.op = "index_document"
              /\ process_file(last.file_path).ok
              /\ process_file(last.file_path).chunks = <<>>

\* C6 as claimed: index_document on a document with zero chunks raises
\* nothing, embeds and inserts nothing, and returns a non-error result with
\* chunks_indexed = 0.
C6_ZeroChunksNonError ==
    ZeroChunks =>
        /\ last.ok
        /\ Calls(last.log, "embed_documents") = 0 /\ Calls(last.log, "insert") = 0
        /\ last.response.status # "error"
        /\ last.response.chunks_indexed = 0

\* C6 amended: index_document on a document with zero chunks raises
\* nothing, embeds and inserts nothing, and returns the result
\* {status: "error", message: "No content extracted from document",
\* chunks_indexed: 0}.
C6_ZeroChunksErrorStatus ==
    ZeroChunks =>
        /\ last.ok
        /\ Calls(last.log, "embed_documents") = 0 /\ Calls(last.log, "insert") = 0
        /\ backend = last.before
        /\ last.response = [status |-> "error",
                            message |-> "No content extracted from document",
                            chunks_indexed |-> 0]

C6_Witness == ZeroChunks /\ last.before.records # <<>>

\* the last index_document call failed with `err` before any embedding call
\* or store write
FailedEarly(err) ==
    /\ ~last.ok /\ last.err = err
    /\ Calls(last.log, "embed_documents") = 0
    /\ Calls(last.log, "insert") = 0
    /\ backend = last.before

Unsupported(file_path) == lower(Path(file_path).ext) \notin SupportedSuffixes

\* C7 as claimed: index_document fails with ValueError for every path with
\* an unsupported extension and with FileNotFoundError for every path that
\* does not exist, without an embedding call or a store write.
C7_UnsupportedOrMissing ==
    last.op = "index_document" =>
        /\ Unsupported(last.file_path) => FailedEarly("ValueError")
        /\ ~exists(Path(last.file_path)) => FailedEarly("FileNotFoundError")

\* C7 amended: index_document fails with FileNotFoundError for every path
\* that does not exist, whatever its extension, and with ValueError for
\* every existing path with an unsupported extension, without an embedding
\* call or a store write.
C7_MissingThenUnsupported ==
    last.op = "index_document" =>
        /\ (exists(Path(last.file_path)) /\ Unsupported(last.file_path))
              => FailedEarly("ValueError")
        /\ ~exists(Path(last.file_path)) => FailedEarly("FileNotFoundError")

C7_Witness ==
    /\ last.op = "index_document"
    /\ ~exists(Path(last.file_path)) /\ Unsupported(last.file_path)
    /\ last.err = "FileNotFoundError"

\* C8: the n chunks process_file returns carry chunk_index 0..n-1 in order,
\* total_chunks = n, and pairwise distinct ids.
C8_ChunkMetadata ==
    (last.op = "process_file" /\ last.ok) =>
        /\ \A i \in DOMAIN last.chunks :
              /\ last.chunks[i].chunk_index = i - 1
              /\ last.chunks[i].total_chunks = Len(last.chunks)
        /\ \A i, j \in DOMAIN last.chunks :
              last.chunks[i].id = last.chunks[j].id => i = j

C8_Witness ==
    /\ last.op = "process_file" /\ last.ok
    /\ Len(last.chunks) >= 2

\* C9: across two process_file runs, two chunks carry the same id if and
\* only if their recorded source and their chunk_index are equal.
C9_IdIsFunctionOfSourceAndIndex ==
    (last.op = "process_file" /\ prev.op = "process_file") =>
        \A i \in DOMAIN prev.chunks, j \in DOMAIN last.chunks :
            prev.chunks[i].id = last.chunks[j].id
              <=> /\ prev.chunks[i].source = last.chunks[j].source
                  /\ prev.chunks[i].chunk_index = last.chunks[j].chunk_index

\* C10: every embed call, batch or single-text, makes at most 3 provider
\* calls, and fails without a further provider call once 3 of them failed.
C10_AtMostThreeAttempts ==
    last.op \in {"generate_embeddings", "generate_embedding"} =>
        /\ Calls(last.log, "embed_documents") <= 3
        /\ last.f >= 3 => ~last.ok

\* C11: a generate_embeddings call on an initialized client whose provider
\* fails f < 3 consecutive times and then answers returns the vectors of the
\* successful attempt, in the order of the texts, and called the provider
\* exactly f + 1 times: f failed calls and then the successful one.
C11_RetryThenSuccess ==
    (last.op = "generate_embeddings" /\ wx.embeddings /\ last.f < 3) =>
        /\ last.ok /\ last.err = "none"
        /\ last.value = [i \in 1..Len(last.texts) |-> Vec(last.texts[i])]
        /\ Calls(last.log, "embed_documents") = last.f + 1
        /\ LET L == NoSleep(last.log) IN
              \A i \in DOMAIN L : L[i] = Ev("embed_documents", i = Len(L))

C11_Witness ==
    /\ last.op = "generate_embeddings" /\ wx.embeddings
    /\ last.f = 2 /\ last.ok /\ Len(last.value) = 2
    /\ Calls(last.log, "embed_documents") = 3

\* C12 as claimed: an embed call on a client whose embedding model handle is
\* not initialized fails with the RuntimeError "Embeddings model not
\* initialized" as the error the caller sees, without a provider call and
\* without a retry or backoff.
C12_NotInitializedSurfaced ==
    (last.op \in {"generate_embeddings", "generate_embedding"} /\ ~wx.embeddings) =>
        /\ ~last.ok /\ last.err = "RuntimeError"
        /\ Calls(last.log, "embed_documents") = 0
        /\ Calls(last.log, "sleep") = 0

\* C12 amended: an embed call on a client whose embedding model handle is
\* not initialized fails without a provider call; the RuntimeError is
\* retried like every other failure (3 attempts with 2 backoff waits for
\* generate_embeddings, 9 attempts with 8 waits for generate_embedding) and
\* the caller sees the RetryError of the exhausted retry.
C12_NotInitializedRetried ==
    (last.op \in {"generate_embeddings", "generate_embedding"} /\ ~wx.embeddings) =>
        /\ ~last.ok /\ last.err = "RetryError"
        /\ Calls(last.log, "embed_documents") = 0
        /\ Calls(last.log, "sleep") =
              IF last.op = "generate_embeddings"
              THEN stop_after_attempt - 1
              ELSE stop_after_attempt * stop_after_attempt - 1

C12_Witness ==
    /\ last.op = "generate_embedding" /\ ~wx.embeddings
    /\ last.err = "RetryError" /\ Calls(last.log, "sleep") = 8

\* C20: WatsonxClient.health_check never raises, and returns true if and
\* only if its one-element embed call succeeded and the vector it returned
\* has the configured embedding dimension.
C20_WatsonxHealthCheck ==
    last.op = "watsonx.health_check" =>
        /\ last.ok
        /\ Len(last.texts) = 1
        /\ last.value <=>
              /\ last.log # <<>>
              /\ last.log[Len(last.log)] = Ev("embed_documents", TRUE)
              /\ wx.dim = embedding_dimension

C20_Witness ==
    /\ last.op = "watsonx.health_check"
    /\ ~last.value
    /\ last.log # <<>> /\ last.log[Len(last.log)] = Ev("embed_documents", TRUE)
    /\ wx.dim # embedding_dimension

EqualLengths ==
    /\ Len(last.texts) = Len(last.ids)
    /\ Len(last.vectors) = Len(last.ids)
    /\ Len(last.sources) = Len(last.ids)

C16_WriteThenFlush ==
    last.op \in {"insert", "delete"} =>
        /\ last.ok => last.log = <<Ev(last.op, TRUE), Ev("flush", TRUE)>>
        /\ (last.log # <<>> /\ ~last.log[1].ok) =>
              (~last.ok /\ last.log = <<Ev(last.op, FALSE)>>)
        /\ Calls(last.log, last.op) <= 1 /\ Calls(last.log, "flush") <= 1

C16_Witness ==
    /\ last.op = "delete" /\ last.ok
    /\ last.log = <<Ev("delete", TRUE), Ev("flush", TRUE)>>
    /\ backend.records = <<>> /\ backend.exists

\* the calls of a log, in order
CallNames(log) == [i \in 1..Len(log) |-> log[i].call]

\* C17: constructing the client calls connect once and first; when connect
\* fails the constructor raises with no further call; otherwise the
\* existence check follows, and a successful construction is connect,
\* has_collection, then create + create_index for an absent collection or
\* open alone for an existing one, then one load, and leaves a handle.
C17_ConstructionOrder ==
    last.op = "init" =>
        /\ last.log # <<>> /\ last.log[1].call = "connect"
        /\ Calls(last.log, "connect") = 1 /\ Calls(last.log, "load") <= 1
        /\ ~last.log[1].ok =>
              /\ ~last.ok /\ Len(last.log) = 1
              /\ collection = "None" /\ backend = last.before
        /\ last.log[1].ok => (Len(last.log) >= 2 /\ last.log[2].call = "has_collection")
        /\ \A i \in 1..(Len(last.log) - 1) : last.log[i].ok
        /\ last.ok =>
              /\ collection # "None" /\ last.handle # "None"
              /\ \A i \in DOMAIN last.log : last.log[i].ok
              /\ CallNames(last.log) =
                    IF last.before.exists
                    THEN <<"connect", "has_collection", "open", "load">>
                    ELSE <<"connect", "has_collection", "create", "create_index", "load">>
              /\ backend = IF last.before.exists
                           THEN [last.before EXCEPT !.loaded = TRUE]
                           ELSE ReadyBackend
        /\ last.before.exists =>
              (Calls(last.log, "create") = 0 /\ Calls(last.log, "create_index") = 0)

C17_Witness ==
    /\ last.op = "init" /\ last.ok /\ last.before.exists
    /\ Calls(last.log, "load") = 1 /\ Calls(last.log, "open") = 1

StoreOps == {"insert", "search", "delete", "get_stats", "clear_collection"}

\* C18: a call of insert, search, delete, get_stats or clear_collection on a
\* client without a collection handle fails with the RuntimeError
\* "Collection not initialized", makes no backend call, and leaves the
\* handle and the collection as they were.
C18_NoHandle ==
    [][(collection = "None" /\ last'.op \in StoreOps) =>
          /\ ~last'.ok /\ last'.err = "RuntimeError"
          /\ last'.log = <<>>
          /\ collection' = "None" /\ backend' = backend]_vars

C18_Witness ==
    /\ collection = "None" /\ last.op = "clear_collection"
    /\ backend.exists
    /\ last.err = "RuntimeError" /\ last.log = <<>>

\* C19: MilvusClient.health_check never raises and returns true if and only
\* if the client has a collection handle and its read of the entity count
\* succeeds.
C19_MilvusHealthCheck ==
    last.op = "milvus.health_check" =>
        /\ last.ok
        /\ last.value <=>
              /\ collection # "None"
              /\ last.fail = "none" /\ backend.exists
              /\ last.log = <<Ev("num_entities", TRUE)>>
        /\ collection = "None" => last.log = <<>>

C19_Witness ==
    /\ last.op = "milvus.health_check"
    /\ collection # "None" /\ ~last.value
    /\ last.log = <<Ev("num_entities", FALSE)>>

\* a vector-store call: each backend call is made at most once, none is
\* followed by a backoff, a failed backend call is the last one and its
\* failure reaches the caller
StoreCallsOnce ==
    last.op \in StoreOps \cup {"init"} =>
        /\ \A i, j \in DOMAIN last.log : last.log[i].call = last.log[j].call => i = j
        /\ Calls(last.log, "sleep") = 0
        /\ \A i \in 1..(Len(last.log) - 1) : last.log[i].ok
        /\ (last.log # <<>> /\ ~last.log[Len(last.log)].ok) => ~last.ok

\* C13 as claimed: only transient failures of the embedding calls are
\* retried: a vector-store call makes each backend call once and propagates
\* the first failure, generate_text calls the model at most once, and an
\* embed call on an uninitialized client is not retried.
C13_RetriesOnlyOnTransientEmbedding ==
    /\ StoreCallsOnce
    /\ last.op = "generate_text" =>
          (Calls(last.log, "llm.generate_text") <= 1 /\ Calls(last.log, "sleep") = 0)
    /\ (last.op \in {"generate_embeddings", "generate_embedding"} /\ ~wx.embeddings) =>
          Calls(last.log, "sleep") = 0

\* C13 amended: retries happen in the Watsonx client only, on every failure
\* of a decorated call: a vector-store call makes each backend call once
\* and propagates the first failure; generate_text calls the model up to 3
\* times, succeeding with f + 1 calls after f < 3 failures and raising
\* RetryError after 3; generate_embeddings calls the provider up to 3 times
\* and generate_embedding up to 9; a call on an uninitialized handle is
\* retried as well, without a provider call.
C13_RetriesInWatsonxClient ==
    /\ StoreCallsOnce
    /\ last.op = "generate_text" =>
          /\ Calls(last.log, "llm.generate_text") <= stop_after_attempt
          /\ (wx.llm /\ last.f < stop_after_attempt) =>
                (last.ok /\ Calls(last.log, "llm.generate_text") = last.f + 1
                         /\ Calls(last.log, "sleep") = last.f)
          /\ (~wx.llm \/ last.f >= stop_after_attempt) =>
                (~last.ok /\ last.err = "RetryError"
                          /\ Calls(last.log, "sleep") = stop_after_attempt - 1)
          /\ ~wx.llm => Calls(last.log, "llm.generate_text") = 0
    /\ last.op = "generate_embeddings" =>
          Calls(last.log, "embed_documents") <= stop_after_attempt
    /\ last.op = "generate_embedding" =>
          Calls(last.log, "embed_documents") <= stop_after_attempt * stop_after_attempt
    /\ (last.op \in {"generate_embeddings", "generate_embedding"} /\ ~wx.embeddings) =>
          /\ Calls(last.log, "sleep") >= stop_after_attempt - 1
          /\ Calls(last.log, "embed_documents") = 0

C13_Witness ==
    /\ last.op = "generate_text" /\ last.ok
    /\ Calls(last.log, "llm.generate_text") = 3 /\ Calls(last.log, "sleep") = 2
    /\ collection # "None"

(***************************************************************************)
(* Chunk settings, chunking and normalisation (SpecText).                  *)
(***************************************************************************)
\* C21: constructing a DocumentProcessor whose overlap (words) is greater
\* than or equal to its chunk size (words) fails, so that no processor with
\* overlap >= chunk size ever chunks a document.
C21_OverlapBelowChunkSize ==
    /\ (last.op = "DocumentProcessor"
          /\ last.settings.rag_chunk_overlap >= last.settings.rag_chunk_size)
        => ~last.ok
    /\ (last.op = "process_file" /\ processor.built)
        => processor.chunk_overlap < processor.chunk_size

\* C22: a document whose normalised text is non-empty and no longer than
\* one chunk budget (chunk_size words x 5 characters) yields exactly one
\* chunk, whose text is the normalised text; a document whose normalised
\* text is empty yields no chunk.
C22_ShortDocumentOneChunk ==
    (last.op = "process_file" /\ processor.built /\ "cleaned_text" \in DOMAIN last)
        => /\ (/\ last.cleaned_text # <<>>
               /\ Len(last.cleaned_text) <= processor.chunk_size * chars_per_word)
                => Column(last.chunks, "text") = <<last.cleaned_text>>
           /\ last.cleaned_text = <<>> => last.chunks = <<>>

C22_Witness ==
    /\ last.op = "process_file" /\ processor.built /\ "cleaned_text" \in DOMAIN last
    /\ Len(last.cleaned_text) = processor.chunk_size * chars_per_word
    /\ last.cleaned_text # last.text
    /\ Contains(last.cleaned_text, <<" ">>)
    /\ Len(last.chunks) = 1

\* C23: every chunk process_file produces holds at most 1.5 x chunk_size
\* whitespace-separated words.
C23_ChunkWordsBounded ==
    (last.op = "process_file" /\ processor.built /\ "cleaned_text" \in DOMAIN last)
        => \A i \in DOMAIN last.chunks :
              2 * WordCount(last.chunks[i].text) <= 3 * processor.chunk_size

\* C24: the output of _clean_text has no two consecutive whitespace
\* characters, no carriage return, only word characters, spaces and the
\* allowed punctuation, and no leading or trailing whitespace.
C24_CleanTextNormalised ==
    (last.op = "process_file" /\ "cleaned_text" \in DOMAIN last)
        => LET t == last.cleaned_text IN
           /\ \A i \in 1..(Len(t) - 1) : ~(t[i] \in Whitespace /\ t[i + 1] \in Whitespace)
           /\ \A i \in DOMAIN t : t[i] # "CR"
           /\ \A i \in DOMAIN t : t[i] \in WordChars \cup {" "} \cup Punctuation
           /\ strip(t) = t

(***************************************************************************)
(* The answer of a query that found something (SpecTools).                 *)
(***************************************************************************)
\* C25: when the search of a query returns r >= 1 results, the response's
\* context is the r result texts in search order, the prompt given to the
\* generation holds those texts joined by a blank line and the question,
\* and the sources are the r results' {source, score, chunk_id} in the same
\* order when include_sources is true and absent when it is false.
C25_QueryResponseFromResults ==
    (last.op = "query" /\ last.ok /\ Len(last.results) >= 1) =>
        /\ last.response.context = Column(last.results, "text")
        /\ last.response.answer.answer_to =
              [context |-> [join |-> "\n\n", parts |-> Column(last.results, "text")],
               question |-> last.query]
        /\ Ev("llm.generate_text", TRUE) \in Range(last.log)
        /\ last.include_sources =>
              /\ "sources" \in DOMAIN last.response
              /\ Len(last.response.sources) = Len(last.results)
              /\ \A i \in DOMAIN last.results :
                    last.response.sources[i] =
                        [source |-> last.results[i].source,
                         score |-> last.results[i].score,
                         chunk_id |-> last.results[i].id]
        /\ ~last.include_sources => "sources" \notin DOMAIN last.response

C25_Witness ==
    /\ last.op = "query" /\ last.ok /\ last.include_sources
    /\ Len(last.results) = 2
    /\ last.results[1].id # last.results[2].id
    /\ Len(last.response.sources) = 2

(***************************************************************************)
(* Concurrent searches (SpecGather).                                       *)
(***************************************************************************)
\* what a search for the query text q returns from the collection
SearchOf(q) ==
    LET os == similarity_ranking(Vec(q)) IN
    search(Vec(q), None, None, os[1], os[2], "none").results

\* C26: concurrent searches on one RAGTools do not interfere: in every
\* interleaving of N searches with distinct query texts, every search that
\* returns carries its own query text and the result set of its own query's
\* embedding, and the gather returns exactly N results, in the callers' order.
C26_ConcurrentSearchesIndependent ==
    /\ \A i \in DOMAIN tasks :
          tasks[i].pc = "done" =>
              /\ tasks[i].result[1].query = tasks[i].query
              /\ tasks[i].result[1].results = SearchOf(tasks[i].query)
              /\ tasks[i].result[1].count = Len(SearchOf(tasks[i].query))
    /\ (last.op = "gather" /\ last.ok) =>
          /\ Len(last.results) = Len(last.queries)
          /\ \A i \in DOMAIN last.queries :
                /\ last.results[i].query = last.queries[i]
                /\ last.results[i].results = SearchOf(last.queries[i])

C26_Witness ==
    /\ last.op = "gather" /\ last.ok
    /\ Len(last.results) = 2
    /\ last.results[1].results # last.results[2].results
    /\ last.results[1].count = 1
    /\ tasks[2].embedded_at < tasks[1].returned_at
    /\ tasks[1].embedded_at < tasks[2].returned_at

(***************************************************************************)
(* The MCP tool surface (SpecServer).                                      *)
(***************************************************************************)
ServerOps == {"rag_query", "rag_index", "rag_search"}

C28_HandleA2AMessageNeverRaises ==
    last.op = "handle_a2a_message" =>
        LET m == last.message
            type == Get(m, "message_type", "query")
            raises == \/ "agent_id" \notin DOMAIN m
                      \/ (type = "query" /\ "content" \in DOMAIN m /\ m.content.kind # "dict")
        IN  /\ ~last.raised
            /\ last.reply # None
            /\ last.reply[1].agent_id = a2a_agent_id
            /\ last.reply[1].correlation_id = Get(m, "correlation_id", "None")
            /\ (type = "query" /\ ~raises) => last.reply[1].message_type = "response"
            /\ (type # "query" \/ raises)
                  => /\ last.reply[1].message_type = "error"
                     /\ last.reply[1].content.error # "none"
            /\ last.reply[1].message_type \in {"response", "error"}

C28_Witness ==
    /\ last.op = "handle_a2a_message"
    /\ "message_type" \in DOMAIN last.message
    /\ last.message.message_type = "index"
    /\ "correlation_id" \in DOMAIN last.message
    /\ last.message.correlation_id = "c1"
    /\ ~last.raised
    /\ last.reply[1].message_type = "error"
    /\ last.reply[1].content.error = "ValueError"
    /\ last.reply[1].correlation_id = "c1"

(***************************************************************************)
(* Indexing and the entity count (SpecIndex).                              *)
(***************************************************************************)
\* C29: when index_document returns status "success" with chunks_indexed =
\* n, the inserted records are already flushed: the last backend calls of
\* the run are the insert and its flush, and a get_stats that follows
\* reports num_entities larger by exactly n than before the call.
C29_IndexedThenCounted ==
    (last.op = "index_document" /\ last.ok /\ last.response.status = "success") =>
        LET n == last.response.chunks_indexed
            log == last.log
        IN  /\ n >= 1
            /\ Len(log) >= 2
            /\ log[Len(log) - 1] = Ev("insert", TRUE)
            /\ log[Len(log)] = Ev("flush", TRUE)
            /\ get_stats("none").ok
            /\ get_stats("none").stats.num_entities = Len(last.before.records) + n

C29_Witness ==
    /\ last.op = "index_document" /\ last.ok /\ last.response.status = "success"
    /\ last.response.chunks_indexed = 2
    /\ get_stats("none").stats.num_entities = 2

\* C30: indexing the same unchanged document twice leaves one record per
\* chunk id: no two records of the collection carry the same id, and an
\* index_document of a document whose chunk ids are all stored already does
\* not increase the entity count.
C30_OneRecordPerChunkId ==
    /\ \A i, j \in DOMAIN backend.records :
          i # j => backend.records[i].id # backend.records[j].id
    /\ (/\ last.op = "index_document" /\ last.ok /\ last.response.status = "success"
        /\ \A i \in DOMAIN backend.records :
              \E j \in DOMAIN last.before.records :
                  last.before.records[j].id = backend.records[i].id)
        => Len(backend.records) = Len(last.before.records)

\* the argument the caller supplied, the configured default only for None
Supplied(opt, default) == IF opt = None THEN default ELSE opt[1]

\* C31: a successful search applies the caller's top_k and score_threshold
\* whenever they are supplied, 0 and 0.0 included, and the defaults only for
\* None: the backend was asked for at most top_k hits and the results are
\* exactly the hits whose score is at or above the supplied threshold, in
\* the backend's order.
C31_SuppliedArgumentsApplied ==
    (last.op = "search" /\ last.ok) =>
        /\ Len(last.hits) <= Supplied(last.top_k, rag_top_k)
        /\ last.results =
              Processed(last.hits, Supplied(last.score_threshold, rag_score_threshold))

\* C32: a clear_collection that raises leaves the client consistent: it
\* holds no handle to a dropped collection, the collection either is as it
\* was before the call or exists empty with the same schema, and
\* health_check and get_stats answer for that collection.
C32_ClearAllOrNothing ==
    (last.op = "clear_collection" /\ ~last.ok /\ collection # "None") =>
        /\ backend.exists
        /\ \/ backend = last.before
           \/ /\ backend.records = <<>>
              /\ backend.dim = last.before.dim
        /\ milvus_health_check("none").value
        /\ get_stats("none").ok
        /\ get_stats("none").stats.num_entities = Len(backend.records)

(***************************************************************************)
(* The MCP server before its lifespan ran (SpecServer).                    *)
(***************************************************************************)
EndpointOps ==
    {"health", "rag_query", "rag_index", "rag_index_directory", "rag_search",
     "rag_stats", "rag_clear"}

\* C33: while rag_tools is not initialized, /health and every /tools/rag_*
\* endpoint answer HTTP 503 with detail "RAG tools not initialized" and no
\* RAG operation is performed.
C33_NotInitializedIs503 ==
    (last.op \in EndpointOps /\ ~last.initialized) =>
        /\ last.http.status_code = 503
        /\ last.http.detail = "RAG tools not initialized"
        /\ last.log = <<>>

(***************************************************************************)
(* The agent's graph (SpecAgent).                                          *)
(***************************************************************************)
\* C34: every process_query run visits process_input first and then ends in
\* exactly one terminal node: generate_response, reached only through
\* retrieve_context and only when no step recorded an error, or
\* handle_error, reached exactly when a step recorded an error.  On the
\* error path the result has an "error" field and its response text
\* contains that error; on the success path the result has no "error"
\* field and its response is the answer of the RAG query tool.
C34_GraphPaths ==
    last.op = "process_query" =>
        LET visited == last.visited
            terminal == visited[Len(visited)]
            recorded == last.final_state.error # None
        IN  /\ visited[1] = "process_input"
            /\ terminal \in {"generate_response", "handle_error"}
            /\ \A i \in 1..(Len(visited) - 1) :
                  visited[i] \notin {"generate_response", "handle_error"}
            /\ terminal = "generate_response"
                  => /\ visited = <<"process_input", "retrieve_context", "generate_response">>
                     /\ ~recorded
            /\ terminal = "handle_error" <=> recorded
            /\ terminal = "handle_error"
                  => /\ "error" \in DOMAIN last.result
                     /\ last.result.response = <<error_reply(last.result.error)>>
            /\ terminal = "generate_response"
                  => /\ "error" \notin DOMAIN last.result
                     /\ last.result.response = <<last.tool.response.answer>>

(***************************************************************************)
(* The agent executor (SpecExecutor).                                      *)
(***************************************************************************)
\* C35: for every execute call that passes validation the events are, in
\* order: the new task (only when the request had no current task), the
\* status "working", and one terminal outcome: the artifact
\* "shakespeare_answer" followed by "completed" when the agent returned a
\* non-empty response without an error, a final "input_required" status
\* otherwise.  No artifact is emitted for a result with an error or an empty
\* response, and when processing raises the final input_required status
\* comes before the ServerError(InternalError).
C35_ExecuteEventOrder ==
    (last.op = "execute" /\ ~_validate_request(last.context)) =>
        LET ev == last.events
            fresh == last.context.current_task = None
            start == IF fresh THEN 1 ELSE 0
            good == /\ ~last.agent_raises
                    /\ "error" \notin DOMAIN last.result
                    /\ last.result.response # None
                    /\ ~Empty(last.result.response[1])
            final == [kind |-> "status",
                      id |-> IF fresh THEN "task-1" ELSE last.context.current_task[1],
                      state |-> "input_required", final |-> TRUE]
        IN  /\ Len(ev) >= start + 2
            /\ \A i \in DOMAIN ev : ev[i].kind = "task" <=> (fresh /\ i = 1)
            /\ ev[start + 1].kind = "status"
            /\ ev[start + 1].state = "working"
            /\ ~ev[start + 1].final
            /\ good => /\ Len(ev) = start + 3
                       /\ ev[start + 2].kind = "artifact"
                       /\ ev[start + 2].name = "shakespeare_answer"
                       /\ ev[start + 2].text = last.result.response[1]
                       /\ ev[start + 3].kind = "status"
                       /\ ev[start + 3].state = "completed"
                       /\ ~last.raised
            /\ ~good => /\ Len(ev) = start + 2
                        /\ ev[start + 2] = final
                        /\ \A i \in DOMAIN ev : ev[i].kind # "artifact"
            /\ last.agent_raises
                  => /\ last.raised
                     /\ last.trace = Append(ev, raise_event("ServerError(InternalError)"))
                     /\ last.trace[Len(last.trace) - 1] = final
            /\ ~last.agent_raises => (~last.raised /\ last.trace = ev)

C35_Witness ==
    /\ last.op = "execute"
    /\ last.context.current_task = None
    /\ ~last.raised
    /\ Len(last.events) = 4
    /\ last.events[1].kind = "task"
    /\ last.events[2].state = "working"
    /\ last.events[3].kind = "artifact"
    /\ last.events[4].state = "completed"

\* C36: execute rejects a request whose user input is missing, empty or
\* only whitespace with ServerError(InvalidParamsError), before it enqueues
\* an event and before it calls the agent; cancel always raises
\* ServerError(UnsupportedOperationError) and enqueues no event.
C36_InvalidInputRejected ==
    /\ (/\ last.op = "execute"
        /\ \/ last.context.message = None
           \/ \A i \in DOMAIN last.context.message[1] :
                 last.context.message[1][i] \in Whitespace)
          => /\ last.raised
             /\ last.err = "ServerError(InvalidParamsError)"
             /\ last.events = <<>>
             /\ last.trace = <<raise_event("ServerError(InvalidParamsError)")>>
             /\ ~last.called
             /\ last.log = <<>>
    /\ last.op = "cancel"
          => /\ last.raised
             /\ last.err = "ServerError(UnsupportedOperationError)"
             /\ last.events = <<>>
             /\ ~last.called

C36_Witness ==
    /\ last.op = "execute"
    /\ last.context.message = << <<" ", "CR">> >>
    /\ last.context.current_task = None
    /\ last.raised
    /\ last.err = "ServerError(InvalidParamsError)"
    /\ last.events = <<>>

(***************************************************************************)
(* The data loader (SpecLoader).                                           *)
(***************************************************************************)
\* C37: the loader inserts only when the collection is empty at its check,
\* so after any number of runs, one after the other or overlapping, no two
\* records of the collection carry the same chunk id.
C37_LoaderIdempotent ==
    \A i, j \in DOMAIN backend.records :
        i # j => backend.records[i].id # backend.records[j].id

====
